---- MODULE Spec2Model ----
(***************************************************************************)
(* ReviewGuro backend: premium activation (PayMongo webhook, season pass   *)
(* code redemption, direct purchase) and free-tier quota enforcement       *)
(* (daily practice counter, mock exam creation), modelled as request       *)
(* handlers that interleave at every database call.                        *)
(*                                                                         *)
(* Every `await` on a repository call is one step of a handler.  A handler *)
(* may fail (database error, process crash) after its first write and      *)
(* before its last one; a failure inside prisma.$transaction discards the  *)
(* transaction's uncommitted writes.                                       *)
(***************************************************************************)
EXTENDS Integers, FiniteSets, Sequences, TLC

(***************************************************************************)
(* Bounds of the model.                                                    *)
(***************************************************************************)
NumWebhooks == 2
NumRedeemers == 2
NumPurchasers == 2
NumClients == 2
MaxTime == 3
MaxSubmissions == 17
MaxExams == 4
NumBurst == 3
NumAdmins == 2
MaxVerifications == 2
MaxStreakDay == 4

Users == {"u1", "u2"}
NoUser == "none"
NULL == "null"
\* users.premium_expiry IS NULL; a timestamp is a tick of the clock, 0 or later
NoExpiry == -1

WebhookIds == 1..NumWebhooks
RedeemerIds == 1..NumRedeemers
PurchaserIds == 1..NumPurchasers
ClientIds == 1..NumClients
BurstIds == 1..NumBurst
AdminIds == 1..NumAdmins
VerificationIds == 1..MaxVerifications

(***************************************************************************)
(* Database tables and handler state.                                      *)
(***************************************************************************)
VARIABLES
    users,      \* users table: userId -> [isPremium, premiumExpiry]
    subs,       \* subscriptions table: set of rows
    codes,      \* season_pass_codes table: code -> [isRedeemed, redeemedBy, expired]
    whPc, whEvent, whTx, whResp,         \* PayMongoController.handleWebhook
    rdPc, rdUser, rdCode, rdExisting, rdResp,   \* SeasonPassCodeService.redeemCode
    puPc, puUser, puTxn, puResp,         \* SubscriptionService.purchaseSubscription
    now,        \* the server clock, in ticks of eight hours
    dailyUsage, \* daily_practice_usage table: <<userId, date>> -> questionsCount
    progress,   \* user_progress table: userId -> number of recorded attempts
    exams,      \* mock_exams table: sequence of rows, the id is the index
    served,     \* history: <<userId, date>> -> practice submissions answered ok
    clPc, clUser, clArg, clResp,         \* practice and mock exam requests
    questions,  \* questions table: id -> [category, difficulty, correctOptionId]
    examData,   \* mock_exams table, the remaining columns of each row: categories,
                \* difficulty, questions, answers, flaggedQuestions, score
    clData,     \* what a mock exam request carries or has read besides clArg
    verifications,          \* payment_verifications table: sequence of rows
    pvPc, pvArg, pvResp,    \* PaymentVerificationService.approve / reject
    streaks     \* user_streaks table: userId -> [currentStreak, longestStreak,
                \* lastActivityDate]

dbVars == <<users, subs, codes>>
whVars == <<whPc, whEvent, whTx, whResp>>
rdVars == <<rdPc, rdUser, rdCode, rdExisting, rdResp>>
puVars == <<puPc, puUser, puTxn, puResp>>
clVars == <<clPc, clUser, clArg, clResp>>
sessVars == <<questions, examData, clData>>
pvVars == <<verifications, pvPc, pvArg, pvResp>>
stVars == <<streaks>>
quotaVars == <<now, dailyUsage, progress, exams, served, clPc, clUser, clArg, clResp,
               questions, examData, clData>>
vars == <<users, subs, codes, whPc, whEvent, whTx, whResp,
          rdPc, rdUser, rdCode, rdExisting, rdResp, puPc, puUser, puTxn, puResp,
          now, dailyUsage, progress, exams, served, clPc, clUser, clArg, clResp,
          questions, examData, clData, verifications, pvPc, pvArg, pvResp, streaks>>

(***************************************************************************)
(* Subscription rows.  subscriptions.user_id is UNIQUE; status defaults to *)
(* 'active', payment_provider to 'paymongo', reference_number to NULL.     *)
(***************************************************************************)
SubRow(u, status, method, txn, ref, provider) ==
    [userId |-> u, status |-> status, paymentMethod |-> method,
     transactionId |-> txn, referenceNumber |-> ref, paymentProvider |-> provider]

NoRow == [userId |-> NoUser, status |-> NULL, paymentMethod |-> NULL,
          transactionId |-> NULL, referenceNumber |-> NULL, paymentProvider |-> NULL]

\* SubscriptionRepository.findByUserId: the row of the user, or NoRow
findByUserId(table, u) ==
    IF \E s \in table : s.userId = u
    THEN CHOOSE s \in table : s.userId = u
    ELSE NoRow

\* SubscriptionRepository.findByReferenceNumber: whether a row carries the reference
findByReferenceNumber(table, ref) ==
    \E s \in table : s.referenceNumber = ref

\* the unique index subscriptions_user_id_key: an insert for u is refused
UserIdTaken(table, u) == \E s \in table : s.userId = u

(***************************************************************************)
(* PayMongo webhook events.  A reference number is issued to one user when *)
(* the checkout link is created; a validly signed event carries that user. *)
(***************************************************************************)
Refs == {"r1", "r2", "r3"}
RefOwner(r) == IF r = "r2" THEN "u2" ELSE "u1"
PaymentId(r) == CASE r = "r1" -> "pay_r1" [] r = "r2" -> "pay_r2" [] OTHER -> "pay_r3"
EventTypes == {"payment.paid", "link.payment.paid", "payment.failed"}

Event(type, u, r, sig) == [type |-> type, userId |-> u, ref |-> r, sigValid |-> sig]
NoEvent == Event(NULL, NoUser, NULL, FALSE)

SignedEvents ==
    {Event(t, RefOwner(r), r, TRUE) : t \in EventTypes, r \in Refs}
        \cup {Event("payment.paid", NoUser, "r1", TRUE)}
ForgedEvents ==
    {Event(t, u, r, FALSE) : t \in EventTypes, u \in Users, r \in {"r1", "r2"}}
Events == SignedEvents \cup ForgedEvents

IsPaidType(t) == t \in {"payment.paid", "link.payment.paid"}

(***************************************************************************)
(* PayMongoController.handleWebhook / handlePaymentPaid                    *)
(***************************************************************************)
\* a variant that trusts the payload without verifying the signature
WhReceive_NoSignatureCheck(h) ==
    /\ whPc[h] = "idle"
    /\ \E ev \in Events :
        /\ whEvent' = [whEvent EXCEPT ![h] = ev]
        /\ IF ~IsPaidType(ev.type) \/ ev.userId = NoUser
           THEN /\ whPc' = [whPc EXCEPT ![h] = "done"]
                /\ whResp' = [whResp EXCEPT ![h] = "200_received"]
           ELSE /\ whPc' = [whPc EXCEPT ![h] = "find"]
                /\ UNCHANGED whResp
    /\ UNCHANGED <<dbVars, whTx, rdVars, puVars, quotaVars, stVars, pvVars>>

\* handleWebhook up to the first database call: signature, event type, userId
WhReceive(h) ==
    /\ whPc[h] = "idle"
    /\ \E ev \in Events :
        /\ whEvent' = [whEvent EXCEPT ![h] = ev]
        /\ IF ~ev.sigValid
           THEN /\ whPc' = [whPc EXCEPT ![h] = "done"]
                /\ whResp' = [whResp EXCEPT ![h] = "200_not_received"]
           ELSE IF ~IsPaidType(ev.type) \/ ev.userId = NoUser
           THEN /\ whPc' = [whPc EXCEPT ![h] = "done"]
                /\ whResp' = [whResp EXCEPT ![h] = "200_received"]
           ELSE /\ whPc' = [whPc EXCEPT ![h] = "find"]
                /\ UNCHANGED whResp
    /\ UNCHANGED <<dbVars, whTx, rdVars, puVars, quotaVars, stVars, pvVars>>

\* a variant without the idempotency lookup
WhFind_NoLookup(h) ==
    /\ whPc[h] = "find"
    /\ whPc' = [whPc EXCEPT ![h] = "txCreate"]
    /\ UNCHANGED <<dbVars, whEvent, whTx, whResp, rdVars, puVars, quotaVars, stVars, pvVars>>

\* the idempotency lookup: an existing row for the reference ends the handler
WhFind(h) ==
    /\ whPc[h] = "find"
    /\ IF findByReferenceNumber(subs, whEvent[h].ref)
       THEN /\ whPc' = [whPc EXCEPT ![h] = "done"]
            /\ whResp' = [whResp EXCEPT ![h] = "200_received"]
       ELSE /\ whPc' = [whPc EXCEPT ![h] = "txCreate"]
            /\ UNCHANGED whResp
    /\ UNCHANGED <<dbVars, whEvent, whTx, rdVars, puVars, quotaVars, stVars, pvVars>>

\* a variant that writes the row outside any transaction (the code before the fix)
WhTxCreate_NoTransaction(h) ==
    /\ whPc[h] = "txCreate"
    /\ IF UserIdTaken(subs, whEvent[h].userId)
       THEN /\ whPc' = [whPc EXCEPT ![h] = "done"]
            /\ whResp' = [whResp EXCEPT ![h] = "500"]
            /\ UNCHANGED subs
       ELSE /\ subs' = subs \cup {SubRow(whEvent[h].userId, "active", "card",
                                        PaymentId(whEvent[h].ref), whEvent[h].ref, "paymongo")}
            /\ whPc' = [whPc EXCEPT ![h] = "txUpdate"]
            /\ UNCHANGED whResp
    /\ UNCHANGED <<users, codes, whEvent, whTx, rdVars, puVars, quotaVars, stVars, pvVars>>

\* createWithUserUpdate, first statement: tx.subscription.create inside the
\* transaction; the row is not visible outside until commit
WhTxCreate(h) ==
    /\ whPc[h] = "txCreate"
    /\ IF UserIdTaken(subs, whEvent[h].userId)
       THEN /\ whPc' = [whPc EXCEPT ![h] = "done"]
            /\ whResp' = [whResp EXCEPT ![h] = "500"]
            /\ UNCHANGED whTx
       ELSE /\ whTx' = [whTx EXCEPT ![h] =
                    {SubRow(whEvent[h].userId, "active", "card",
                            PaymentId(whEvent[h].ref), whEvent[h].ref, "paymongo")}]
            /\ whPc' = [whPc EXCEPT ![h] = "txUpdate"]
            /\ UNCHANGED whResp
    /\ UNCHANGED <<dbVars, whEvent, rdVars, puVars, quotaVars, stVars, pvVars>>

\* createWithUserUpdate, second statement and commit: tx.user.update, then both
\* writes become visible together; a row committed meanwhile for the same user
\* makes the insert fail and the transaction roll back
WhTxUpdateCommit(h) ==
    /\ whPc[h] = "txUpdate"
    /\ IF whTx[h] # {} /\ UserIdTaken(subs, whEvent[h].userId)
       THEN /\ whResp' = [whResp EXCEPT ![h] = "500"]
            /\ UNCHANGED <<users, subs>>
       ELSE /\ subs' = subs \cup whTx[h]
            /\ users' = [users EXCEPT ![whEvent[h].userId] =
                            [isPremium |-> TRUE, premiumExpiry |-> NoExpiry]]
            /\ whResp' = [whResp EXCEPT ![h] = "200_received"]
    /\ whPc' = [whPc EXCEPT ![h] = "done"]
    /\ whTx' = [whTx EXCEPT ![h] = {}]
    /\ UNCHANGED <<codes, whEvent, rdVars, puVars, quotaVars, stVars, pvVars>>

\* a database failure or crash between the two statements: the error leaves
\* handleWebhook through next(error); uncommitted writes are discarded
WhFail(h) ==
    /\ whPc[h] = "txUpdate"
    /\ whPc' = [whPc EXCEPT ![h] = "failed"]
    /\ whTx' = [whTx EXCEPT ![h] = {}]
    /\ whResp' = [whResp EXCEPT ![h] = "500"]
    /\ UNCHANGED <<dbVars, whEvent, rdVars, puVars, quotaVars, stVars, pvVars>>

WebhookStep(h) ==
    \/ WhReceive(h)
    \/ WhFind(h)
    \/ WhTxCreate(h)
    \/ WhTxUpdateCommit(h)
    \/ WhFail(h)

(***************************************************************************)
(* Season pass codes.  Code strings as the client sends them; the table    *)
(* stores codes in upper case.                                             *)
(***************************************************************************)
CodeInputs == {"RG-AAAAA-AAAAA", "rg-aaaaa-aaaaa", "RG-BBBBB-BBBBB",
               "RG-ZZZZZ-ZZZZZ", "RG-123"}

\* String.prototype.toUpperCase on the code strings of the model
toUpperCase(c) == IF c = "rg-aaaaa-aaaaa" THEN "RG-AAAAA-AAAAA" ELSE c

\* utils/codeGenerator.normalizeCode: trims and upper-cases
normalizeCode(c) == toUpperCase(c)

\* utils/codeGenerator.isValidCodeFormat: RG-XXXXX-XXXXX over the upper-case alphabet
isValidCodeFormat(c) == c \in {"RG-AAAAA-AAAAA", "RG-BBBBB-BBBBB", "RG-ZZZZZ-ZZZZZ"}

\* SeasonPassCodeRepository.findByCode: looks the upper-cased code up
findByCode(table, c) == toUpperCase(c) \in DOMAIN table

\* a variant without the redemption status check
validateCode_NoRedeemedCheck(table, c) ==
    IF ~findByCode(table, c) THEN "Invalid code"
    ELSE IF table[toUpperCase(c)].expired THEN "Code has expired"
    ELSE "ok"

\* SeasonPassCodeRepository.validateCode: "ok" or the reason of the refusal
validateCode(table, c) ==
    IF ~findByCode(table, c) THEN "Invalid code"
    ELSE IF table[toUpperCase(c)].isRedeemed THEN "Code already redeemed"
    ELSE IF table[toUpperCase(c)].expired THEN "Code has expired"
    ELSE "ok"

(***************************************************************************)
(* SeasonPassCodeService.redeemCode                                        *)
(***************************************************************************)
\* normalizeCode and the format check, before any database call
RdStart(r) ==
    /\ rdPc[r] = "idle"
    /\ \E u \in Users, c \in CodeInputs :
        /\ rdUser' = [rdUser EXCEPT ![r] = u]
        /\ rdCode' = [rdCode EXCEPT ![r] = normalizeCode(c)]
        /\ IF ~isValidCodeFormat(normalizeCode(c))
           THEN /\ rdPc' = [rdPc EXCEPT ![r] = "done"]
                /\ rdResp' = [rdResp EXCEPT ![r] = "bad_request"]
           ELSE /\ rdPc' = [rdPc EXCEPT ![r] = "validate"]
                /\ UNCHANGED rdResp
    /\ UNCHANGED <<dbVars, rdExisting, whVars, puVars, quotaVars, stVars, pvVars>>

\* validateCode: a code that is unknown, redeemed or expired is a BadRequestError
RdValidate(r) ==
    /\ rdPc[r] = "validate"
    /\ IF validateCode(codes, rdCode[r]) # "ok"
       THEN /\ rdPc' = [rdPc EXCEPT ![r] = "done"]
            /\ rdResp' = [rdResp EXCEPT ![r] = "bad_request"]
       ELSE /\ rdPc' = [rdPc EXCEPT ![r] = "findUser"]
            /\ UNCHANGED rdResp
    /\ UNCHANGED <<dbVars, rdUser, rdCode, rdExisting, whVars, puVars, quotaVars, stVars, pvVars>>

\* userRepository.findById: a premium user is a ConflictError
RdFindUser(r) ==
    /\ rdPc[r] = "findUser"
    /\ IF users[rdUser[r]].isPremium
       THEN /\ rdPc' = [rdPc EXCEPT ![r] = "done"]
            /\ rdResp' = [rdResp EXCEPT ![r] = "conflict"]
       ELSE /\ rdPc' = [rdPc EXCEPT ![r] = "findSub"]
            /\ UNCHANGED rdResp
    /\ UNCHANGED <<dbVars, rdUser, rdCode, rdExisting, whVars, puVars, quotaVars, stVars, pvVars>>

\* a variant that marks the code redeemed before the subscription check
RdFindSub_MarkFirst(r) ==
    /\ rdPc[r] = "findSub"
    /\ codes' = [codes EXCEPT ![toUpperCase(rdCode[r])] =
                    [@ EXCEPT !.isRedeemed = TRUE, !.redeemedBy = rdUser[r]]]
    /\ LET existing == findByUserId(subs, rdUser[r]) IN
       IF existing # NoRow /\ existing.status = "active"
       THEN /\ rdPc' = [rdPc EXCEPT ![r] = "done"]
            /\ rdResp' = [rdResp EXCEPT ![r] = "conflict"]
            /\ UNCHANGED rdExisting
       ELSE /\ rdPc' = [rdPc EXCEPT ![r] = "mark"]
            /\ rdExisting' = [rdExisting EXCEPT ![r] = existing]
            /\ UNCHANGED rdResp
    /\ UNCHANGED <<users, subs, rdUser, rdCode, whVars, puVars, quotaVars, stVars, pvVars>>

\* subscriptionRepository.findByUserId: an active subscription is a ConflictError
RdFindSub(r) ==
    /\ rdPc[r] = "findSub"
    /\ LET existing == findByUserId(subs, rdUser[r]) IN
       IF existing # NoRow /\ existing.status = "active"
       THEN /\ rdPc' = [rdPc EXCEPT ![r] = "done"]
            /\ rdResp' = [rdResp EXCEPT ![r] = "conflict"]
            /\ UNCHANGED rdExisting
       ELSE /\ rdPc' = [rdPc EXCEPT ![r] = "mark"]
            /\ rdExisting' = [rdExisting EXCEPT ![r] = existing]
            /\ UNCHANGED rdResp
    /\ UNCHANGED <<dbVars, rdUser, rdCode, whVars, puVars, quotaVars, stVars, pvVars>>

\* SeasonPassCodeRepository.markAsRedeemed: an unconditional update by code
RdMark(r) ==
    /\ rdPc[r] = "mark"
    /\ codes' = [codes EXCEPT ![toUpperCase(rdCode[r])] =
                    [@ EXCEPT !.isRedeemed = TRUE, !.redeemedBy = rdUser[r]]]
    /\ rdPc' = [rdPc EXCEPT ![r] = "subWrite"]
    /\ UNCHANGED <<users, subs, rdUser, rdCode, rdExisting, rdResp, whVars, puVars, quotaVars, stVars, pvVars>>

\* subscriptionRepository.update when a row was found, else create
RdSubWrite(r) ==
    /\ rdPc[r] = "subWrite"
    /\ IF rdExisting[r] # NoRow
       THEN /\ subs' = {IF s.userId = rdUser[r]
                        THEN [s EXCEPT !.status = "active",
                                       !.paymentMethod = "season_pass_code",
                                       !.transactionId = rdCode[r],
                                       !.paymentProvider = "code_redemption"]
                        ELSE s : s \in subs}
            /\ rdPc' = [rdPc EXCEPT ![r] = "userUpdate"]
            /\ UNCHANGED rdResp
       ELSE IF UserIdTaken(subs, rdUser[r])
       THEN /\ rdPc' = [rdPc EXCEPT ![r] = "done"]
            /\ rdResp' = [rdResp EXCEPT ![r] = "internal"]
            /\ UNCHANGED subs
       ELSE /\ subs' = subs \cup {SubRow(rdUser[r], "active", "season_pass_code",
                                        rdCode[r], NULL, "code_redemption")}
            /\ rdPc' = [rdPc EXCEPT ![r] = "userUpdate"]
            /\ UNCHANGED rdResp
    /\ UNCHANGED <<users, codes, rdUser, rdCode, rdExisting, whVars, puVars, quotaVars, stVars, pvVars>>

\* userRepository.update: isPremium true, premiumExpiry null
RdUserUpdate(r) ==
    /\ rdPc[r] = "userUpdate"
    /\ users' = [users EXCEPT ![rdUser[r]] = [isPremium |-> TRUE, premiumExpiry |-> NoExpiry]]
    /\ rdPc' = [rdPc EXCEPT ![r] = "done"]
    /\ rdResp' = [rdResp EXCEPT ![r] = "ok"]
    /\ UNCHANGED <<subs, codes, rdUser, rdCode, rdExisting, whVars, puVars, quotaVars, stVars, pvVars>>

\* a database failure or crash after markAsRedeemed or after the subscription write
RdFail(r) ==
    /\ rdPc[r] \in {"subWrite", "userUpdate"}
    /\ rdPc' = [rdPc EXCEPT ![r] = "failed"]
    /\ rdResp' = [rdResp EXCEPT ![r] = "internal"]
    /\ UNCHANGED <<dbVars, rdUser, rdCode, rdExisting, whVars, puVars, quotaVars, stVars, pvVars>>

RedeemStep(r) ==
    \/ RdStart(r)
    \/ RdValidate(r)
    \/ RdFindUser(r)
    \/ RdFindSub(r)
    \/ RdMark(r)
    \/ RdSubWrite(r)
    \/ RdUserUpdate(r)
    \/ RdFail(r)

(***************************************************************************)
(* SubscriptionService.purchaseSubscription                                *)
(***************************************************************************)
PurchaseTxns == {"txn1", "txn2"}

\* findByUserId: an active row is updated, anything else leads to create
PuFind(p) ==
    /\ puPc[p] = "idle"
    /\ \E u \in Users, t \in PurchaseTxns :
        /\ puUser' = [puUser EXCEPT ![p] = u]
        /\ puTxn' = [puTxn EXCEPT ![p] = t]
        /\ LET existing == findByUserId(subs, u) IN
           IF existing # NoRow /\ existing.status = "active"
           THEN puPc' = [puPc EXCEPT ![p] = "updateSub"]
           ELSE puPc' = [puPc EXCEPT ![p] = "createSub"]
    /\ UNCHANGED <<dbVars, puResp, whVars, rdVars, quotaVars, stVars, pvVars>>

\* subscriptionRepository.update(userId, {status: 'active'})
PuUpdateSub(p) ==
    /\ puPc[p] = "updateSub"
    /\ subs' = {IF s.userId = puUser[p] THEN [s EXCEPT !.status = "active"] ELSE s : s \in subs}
    /\ puPc' = [puPc EXCEPT ![p] = "userUpdate"]
    /\ UNCHANGED <<users, codes, puUser, puTxn, puResp, whVars, rdVars, quotaVars, stVars, pvVars>>

\* subscriptionRepository.create: status and provider take the column defaults
PuCreateSub(p) ==
    /\ puPc[p] = "createSub"
    /\ IF UserIdTaken(subs, puUser[p])
       THEN /\ puPc' = [puPc EXCEPT ![p] = "done"]
            /\ puResp' = [puResp EXCEPT ![p] = "internal"]
            /\ UNCHANGED subs
       ELSE /\ subs' = subs \cup {SubRow(puUser[p], "active", "gcash", puTxn[p], NULL, "paymongo")}
            /\ puPc' = [puPc EXCEPT ![p] = "userUpdate"]
            /\ UNCHANGED puResp
    /\ UNCHANGED <<users, codes, puUser, puTxn, whVars, rdVars, quotaVars, stVars, pvVars>>

\* userRepository.update(userId, {isPremium: true})
PuUserUpdate(p) ==
    /\ puPc[p] = "userUpdate"
    /\ users' = [users EXCEPT ![puUser[p]].isPremium = TRUE]
    /\ puPc' = [puPc EXCEPT ![p] = "done"]
    /\ puResp' = [puResp EXCEPT ![p] = "ok"]
    /\ UNCHANGED <<subs, codes, puUser, puTxn, whVars, rdVars, quotaVars, stVars, pvVars>>

\* a database failure or crash between the subscription write and the user update
PuFail(p) ==
    /\ puPc[p] = "userUpdate"
    /\ puPc' = [puPc EXCEPT ![p] = "failed"]
    /\ puResp' = [puResp EXCEPT ![p] = "internal"]
    /\ UNCHANGED <<dbVars, puUser, puTxn, whVars, rdVars, quotaVars, stVars, pvVars>>

PurchaseStep(p) ==
    \/ PuFind(p)
    \/ PuUpdateSub(p)
    \/ PuCreateSub(p)
    \/ PuUserUpdate(p)
    \/ PuFail(p)

(***************************************************************************)
(* Manual payment verification: PaymentVerificationService.submitProof,    *)
(* approve and reject.  A proof is recorded as pending; an admin approves  *)
(* it (subscription and premium flag, in one transaction) or rejects it.   *)
(***************************************************************************)
VerificationRow(u) == [userId |-> u, status |-> "pending"]

\* submitProof: a pending record for the user
SubmitProof(a) ==
    /\ pvPc[a] = "idle"
    /\ Len(verifications) < MaxVerifications
    /\ \E u \in Users : verifications' = Append(verifications, VerificationRow(u))
    /\ pvResp' = [pvResp EXCEPT ![a] = "submitted"]
    /\ UNCHANGED <<dbVars, whVars, rdVars, puVars, quotaVars, stVars, pvPc, pvArg>>

\* approve and reject fail for a record that does not exist or is decided
decideRefusal(id) ==
    IF id \notin 1..Len(verifications) THEN "not_found"
    ELSE IF verifications[id].status # "pending" THEN "bad_request"
    ELSE "none"

\* approve and reject: the record is looked up and must be pending
DecideFind(a) ==
    /\ pvPc[a] = "idle"
    /\ \E id \in VerificationIds, op \in {"approve", "reject"} :
        IF decideRefusal(id) # "none"
        THEN /\ pvResp' = [pvResp EXCEPT ![a] = decideRefusal(id)]
             /\ UNCHANGED <<pvPc, pvArg>>
        ELSE /\ pvPc' = [pvPc EXCEPT ![a] = op]
             /\ pvArg' = [pvArg EXCEPT ![a] = id]
             /\ pvResp' = [pvResp EXCEPT ![a] = "pending"]
    /\ UNCHANGED <<dbVars, whVars, rdVars, puVars, quotaVars, stVars, verifications>>

\* approve: the record becomes approved, the user's subscription is created or
\* made active and the user is made premium, all in one transaction
ApproveCommit(a) ==
    /\ pvPc[a] = "approve"
    /\ LET u == verifications[pvArg[a]].userId IN
        /\ verifications' = [verifications EXCEPT ![pvArg[a]].status = "approved"]
        /\ subs' = {s \in subs : s.userId # u}
                     \cup {SubRow(u, "active", "gcash", "manual", NULL, "manual")}
        /\ users' = [users EXCEPT ![u] = [isPremium |-> TRUE, premiumExpiry |-> NoExpiry]]
    /\ pvPc' = [pvPc EXCEPT ![a] = "idle"]
    /\ pvArg' = [pvArg EXCEPT ![a] = 0]
    /\ pvResp' = [pvResp EXCEPT ![a] = "approved"]
    /\ UNCHANGED <<codes, whVars, rdVars, puVars, quotaVars, stVars>>

\* reject: the record becomes rejected; nothing is granted
RejectWrite(a) ==
    /\ pvPc[a] = "reject"
    /\ verifications' = [verifications EXCEPT ![pvArg[a]].status = "rejected"]
    /\ pvPc' = [pvPc EXCEPT ![a] = "idle"]
    /\ pvArg' = [pvArg EXCEPT ![a] = 0]
    /\ pvResp' = [pvResp EXCEPT ![a] = "rejected"]
    /\ UNCHANGED <<dbVars, whVars, rdVars, puVars, quotaVars, stVars>>

VerificationStep(a) ==
    \/ SubmitProof(a)
    \/ DecideFind(a)
    \/ ApproveCommit(a)
    \/ RejectWrite(a)

(***************************************************************************)
(* Access policy (utils/accessControl.ts) and the limits it is configured  *)
(* with.  -1 is the "unlimited" sentinel.                                  *)
(***************************************************************************)
FREE_TIER_PRACTICE_LIMIT_PER_DAY == 15
FREE_TIER_MOCK_EXAM_QUESTIONS_LIMIT == 20
FREE_TIER_MOCK_EXAMS_PER_MONTH == 3
PREMIUM_MOCK_EXAM_QUESTIONS_LIMIT == 170
FREE_EXPLANATION_LIMIT == 3
UNLIMITED == -1

\* a variant that takes a null expiry for "no premium period"
isPremiumUser_ExpiryRequired(user) ==
    /\ user.isPremium
    /\ user.premiumExpiry # NoExpiry

\* a variant that goes by the premium flag alone
isPremiumUser_RawFlag(user) == user.isPremium

\* effective premium: the flag is set and the expiry is null or in the future
isPremiumUser(user) ==
    /\ user.isPremium
    /\ (user.premiumExpiry = NoExpiry \/ user.premiumExpiry > now)

getUserAccessLimits(user) ==
    IF isPremiumUser(user)
    THEN [practiceLimitPerDay |-> UNLIMITED,
          mockExamQuestionsLimit |-> PREMIUM_MOCK_EXAM_QUESTIONS_LIMIT,
          mockExamsPerMonth |-> UNLIMITED,
          explanationLimitPerDay |-> UNLIMITED]
    ELSE [practiceLimitPerDay |-> FREE_TIER_PRACTICE_LIMIT_PER_DAY,
          mockExamQuestionsLimit |-> FREE_TIER_MOCK_EXAM_QUESTIONS_LIMIT,
          mockExamsPerMonth |-> FREE_TIER_MOCK_EXAMS_PER_MONTH,
          explanationLimitPerDay |-> FREE_EXPLANATION_LIMIT]

\* a usage count has used up a limit; the unlimited sentinel is never used up
exceedsLimit(current, limit) == limit # UNLIMITED /\ current >= limit

(***************************************************************************)
(* DailyPracticeUsageRepository.  The clock counts ticks of eight hours;   *)
(* the date of an instant is its UTC day.                                  *)
(***************************************************************************)
TicksPerDay == 3
TicksPerMonth == 90

getDateOnly(t) == t \div TicksPerDay
getTodayDateUTC == getDateOnly(now)

\* findUnique on (userId, date); record?.questionsCount || 0
getTodayCount(table, u) ==
    IF <<u, getTodayDateUTC>> \in DOMAIN table THEN table[<<u, getTodayDateUTC>>] ELSE 0

\* a variant whose upsert creates today's row without counting the submission
incrementTodayCount_CreateZero(table, u) ==
    IF <<u, getTodayDateUTC>> \in DOMAIN table
    THEN [table EXCEPT ![<<u, getTodayDateUTC>>] = @ + 1]
    ELSE table @@ (<<u, getTodayDateUTC>> :> 0)

\* a variant whose update branch writes the count 1 instead of incrementing
incrementTodayCount_SetOne(table, u) ==
    IF <<u, getTodayDateUTC>> \in DOMAIN table
    THEN [table EXCEPT ![<<u, getTodayDateUTC>>] = 1]
    ELSE table @@ (<<u, getTodayDateUTC>> :> 1)

\* upsert on (userId, date): increment by 1, or create the row with count 1
incrementTodayCount(table, u) ==
    IF <<u, getTodayDateUTC>> \in DOMAIN table
    THEN [table EXCEPT ![<<u, getTodayDateUTC>>] = @ + 1]
    ELSE table @@ (<<u, getTodayDateUTC>> :> 1)

RECURSIVE SumOf(_)
SumOf(f) ==
    IF DOMAIN f = {} THEN 0
    ELSE LET k == CHOOSE x \in DOMAIN f : TRUE
         IN  f[k] + SumOf([x \in DOMAIN f \ {k} |-> f[x]])

(***************************************************************************)
(* PracticeService.submitAnswer: check the daily limit, perform the action *)
(* (look the question up, record the attempt), then count the submission.  *)
(***************************************************************************)
QuestionInputs == {"q1", "missing"}

\* the daily practice limit of the user is used up
dailyLimitReached(u) ==
    exceedsLimit(getTodayCount(dailyUsage, u),
                 getUserAccessLimits(users[u]).practiceLimitPerDay)

SubmitAnswerCheck(c) ==
    /\ clPc[c] = "idle"
    /\ SumOf(dailyUsage) < MaxSubmissions
    /\ \E u \in Users :
        IF dailyLimitReached(u)
        THEN /\ clResp' = [clResp EXCEPT ![c] = "forbidden_daily"]
             /\ UNCHANGED <<clPc, clUser>>
        ELSE /\ clPc' = [clPc EXCEPT ![c] = "action"]
             /\ clUser' = [clUser EXCEPT ![c] = u]
             /\ clResp' = [clResp EXCEPT ![c] = "pending"]
    /\ UNCHANGED <<dbVars, whVars, rdVars, puVars, pvVars, stVars, sessVars,
                   now, dailyUsage, progress, exams, served, clArg>>

\* a variant that counts the submission before the question is looked up
SubmitAnswerAction_CountFirst(c) ==
    /\ clPc[c] = "action"
    /\ dailyUsage' = incrementTodayCount(dailyUsage, clUser[c])
    /\ \E q \in QuestionInputs :
        IF q = "missing"
        THEN /\ clPc' = [clPc EXCEPT ![c] = "idle"]
             /\ clUser' = [clUser EXCEPT ![c] = NoUser]
             /\ clResp' = [clResp EXCEPT ![c] = "not_found"]
             /\ UNCHANGED progress
        ELSE /\ progress' = [progress EXCEPT ![clUser[c]] = @ + 1]
             /\ clPc' = [clPc EXCEPT ![c] = "increment"]
             /\ UNCHANGED <<clUser, clResp>>
    /\ UNCHANGED <<dbVars, whVars, rdVars, puVars, pvVars, stVars, sessVars,
                   now, exams, served, clArg>>

SubmitAnswerAction(c) ==
    /\ clPc[c] = "action"
    /\ \E q \in QuestionInputs :
        IF q = "missing"
        THEN /\ clPc' = [clPc EXCEPT ![c] = "idle"]
             /\ clUser' = [clUser EXCEPT ![c] = NoUser]
             /\ clResp' = [clResp EXCEPT ![c] = "not_found"]
             /\ UNCHANGED progress
        ELSE /\ progress' = [progress EXCEPT ![clUser[c]] = @ + 1]
             /\ clPc' = [clPc EXCEPT ![c] = "increment"]
             /\ UNCHANGED <<clUser, clResp>>
    /\ UNCHANGED <<dbVars, whVars, rdVars, puVars, pvVars, stVars, sessVars,
                   now, dailyUsage, exams, served, clArg>>

SubmitAnswerIncrement(c) ==
    /\ clPc[c] = "increment"
    /\ dailyUsage' = incrementTodayCount(dailyUsage, clUser[c])
    /\ served' = IF <<clUser[c], getTodayDateUTC>> \in DOMAIN served
                 THEN [served EXCEPT ![<<clUser[c], getTodayDateUTC>>] = @ + 1]
                 ELSE served @@ (<<clUser[c], getTodayDateUTC>> :> 1)
    /\ clPc' = [clPc EXCEPT ![c] = "idle"]
    /\ clUser' = [clUser EXCEPT ![c] = NoUser]
    /\ clResp' = [clResp EXCEPT ![c] = "answered"]
    /\ UNCHANGED <<dbVars, whVars, rdVars, puVars, pvVars, stVars, sessVars, now, progress, exams, clArg>>

SubmitAnswerStep(c) ==
    \/ SubmitAnswerCheck(c)
    \/ SubmitAnswerAction(c)
    \/ SubmitAnswerIncrement(c)

\* the clock advances
Tick ==
    /\ now < MaxTime
    /\ now' = now + 1
    /\ UNCHANGED <<dbVars, whVars, rdVars, puVars, pvVars, stVars, sessVars,
                   dailyUsage, progress, exams, served, clVars>>

(***************************************************************************)
(* Mock exam sessions: MockExamRepository and MockExamService.             *)
(***************************************************************************)
TotalQuestionsInputs == {20, 21, 170}
ExamIds == 1..MaxExams

\* mock_exams.completed_at IS NULL and score IS NULL; a timestamp is a tick of
\* the clock and a score a percentage, both 0 or more
NoTime == -1
NoScore == -1

ExamRow(u, n, t) ==
    [userId |-> u, totalQuestions |-> n, status |-> "IN_PROGRESS",
     createdAt |-> t, completedAt |-> NoTime]

\* the columns of a new row that ExamRow leaves out; answers defaults to '{}',
\* flagged_questions to '[]', score to NULL
ExamDataRow(categories, difficulty, passingScore, qs) ==
    [categories |-> categories, difficulty |-> difficulty,
     passingScore |-> passingScore, questions |-> qs,
     answers |-> << >>, flaggedQuestions |-> {}, score |-> NoScore]

MonthOf(t) == t \div TicksPerMonth

\* completed mock exams of the user since the first day of the current month
getMonthCount(table, u) ==
    Cardinality({i \in 1..Len(table) :
                    /\ table[i].userId = u
                    /\ table[i].status = "COMPLETED"
                    /\ MonthOf(table[i].completedAt) = MonthOf(now)})

(***************************************************************************)
(* QuestionRepository.findRandom: the questions the filter lets through,   *)
(* shuffled, cut to the requested count.                                   *)
(***************************************************************************)
MIXED == {"MIXED"}
QuestionRow(category, difficulty, correct) ==
    [category |-> category, difficulty |-> difficulty, correctOptionId |-> correct]

\* the where clause: a category filter only for a non-empty list of categories,
\* a difficulty filter only for a given difficulty
findMany(table, categories, difficulty) ==
    {q \in DOMAIN table :
        /\ (categories # {} => table[q].category \in categories)
        /\ (difficulty # NULL => table[q].difficulty = difficulty)}

\* the orders a shuffle can leave the rows in
shuffled(S) ==
    {f \in [1..Cardinality(S) -> S] :
        \A i, j \in 1..Cardinality(S) : f[i] = f[j] => i = j}

\* Array.prototype.slice(0, count)
slice(seq, count) == SubSeq(seq, 1, IF count < Len(seq) THEN count ELSE Len(seq))

findRandom(table, count, categories, difficulty) ==
    {slice(p, count) : p \in shuffled(findMany(table, categories, difficulty))}

(***************************************************************************)
(* MockExamRepository.  The writes are keyed by the id alone.              *)
(***************************************************************************)
\* MockExamRepository.create: a new row with status IN_PROGRESS
create(table, u, n) == Append(table, ExamRow(u, n, now))

\* a variant that looks the row up by its id alone
findById_AnyUser(table, id, u) == id \in 1..Len(table)

\* MockExamRepository.findById: the row with this id that belongs to the user
findById(table, id, u) == id \in 1..Len(table) /\ table[id].userId = u

\* MockExamRepository.updateAnswers
updateAnswers(table, id, answers) == [table EXCEPT ![id].answers = answers]

\* MockExamRepository.updateFlags
updateFlags(table, id, flagged) == [table EXCEPT ![id].flaggedQuestions = flagged]

\* MockExamRepository.complete
complete(table, id) ==
    [table EXCEPT ![id].status = "COMPLETED", ![id].completedAt = now]

\* MockExamRepository.abandon
abandon(table, id) == [table EXCEPT ![id].status = "ABANDONED"]

(***************************************************************************)
(* MockExamService                                                         *)
(***************************************************************************)
NoData == [kind |-> "none"]

\* what is left of a request that found no session: the caller and the id asked for
Refused(u, id) == [kind |-> "request", userId |-> u, examId |-> id]

\* a variant that refuses a request for exactly the question cap
createRefusal_CapExclusive(u, n) ==
    IF n >= getUserAccessLimits(users[u]).mockExamQuestionsLimit
    THEN "forbidden_questions"
    ELSE IF exceedsLimit(getMonthCount(exams, u),
                         getUserAccessLimits(users[u]).mockExamsPerMonth)
    THEN "forbidden_monthly"
    ELSE "none"

\* createMockExam validates the question cap, then the monthly cap
createRefusal(u, n) ==
    IF n > getUserAccessLimits(users[u]).mockExamQuestionsLimit
    THEN "forbidden_questions"
    ELSE IF exceedsLimit(getMonthCount(exams, u),
                         getUserAccessLimits(users[u]).mockExamsPerMonth)
    THEN "forbidden_monthly"
    ELSE "none"

PendingCreates == Cardinality({c \in ClientIds : clPc[c] = "persist"})

\* the request body of createMockExam besides totalQuestions
CreateDTO(categories, difficulty, passingScore) ==
    [kind |-> "create", categories |-> categories, difficulty |-> difficulty,
     passingScore |-> passingScore]

DefaultDTOs == {CreateDTO(MIXED, NULL, 80)}

\* createMockExam up to the selection of the questions, for requests of the
\* given sizes and bodies
CreateMockExamCheckOf(c, sizes, dtos) ==
    /\ clPc[c] = "idle"
    /\ Len(exams) + PendingCreates < MaxExams
    /\ \E u \in Users, n \in sizes, dto \in dtos :
        IF createRefusal(u, n) # "none"
        THEN /\ clResp' = [clResp EXCEPT ![c] = createRefusal(u, n)]
             /\ clData' = [clData EXCEPT ![c] = NoData]
             /\ UNCHANGED <<clPc, clUser, clArg>>
        ELSE /\ clPc' = [clPc EXCEPT ![c] = "persist"]
             /\ clUser' = [clUser EXCEPT ![c] = u]
             /\ clArg' = [clArg EXCEPT ![c] = n]
             /\ clData' = [clData EXCEPT ![c] = dto]
             /\ clResp' = [clResp EXCEPT ![c] = "pending"]
    /\ UNCHANGED <<dbVars, whVars, rdVars, puVars, pvVars, stVars,
                   now, dailyUsage, progress, exams, served, questions, examData>>

CreateMockExamCheck(c) == CreateMockExamCheckOf(c, TotalQuestionsInputs, DefaultDTOs)

\* 'MIXED' asks for no category filter
toCategoryFilter(categories) == IF categories = MIXED THEN {} ELSE categories

\* createMockExam: the questions are selected and the session row is written
CreateMockExamPersist(c) ==
    /\ clPc[c] = "persist"
    /\ \E qs \in findRandom(questions, clArg[c],
                            toCategoryFilter(clData[c].categories), clData[c].difficulty) :
        /\ exams' = create(exams, clUser[c], clArg[c])
        /\ examData' = Append(examData,
                              ExamDataRow(clData[c].categories, clData[c].difficulty,
                                          clData[c].passingScore, qs))
    /\ clPc' = [clPc EXCEPT ![c] = "idle"]
    /\ clUser' = [clUser EXCEPT ![c] = NoUser]
    /\ clArg' = [clArg EXCEPT ![c] = 0]
    /\ clData' = [clData EXCEPT ![c] = NoData]
    /\ clResp' = [clResp EXCEPT ![c] = "created"]
    /\ UNCHANGED <<dbVars, whVars, rdVars, puVars, pvVars, stVars, now, dailyUsage, progress, served,
                   questions>>

\* Math.round of the percentage correct / total
percentage(correct, total) == (200 * correct + total) \div (2 * total)

\* a variant that passes an exam only above the passing score
calculateResults_PassExclusive(row, table) ==
    LET qs == row.questions
        answered == {i \in 1..Len(qs) : qs[i] \in DOMAIN row.answers}
        correct == {i \in answered : row.answers[qs[i]] = table[qs[i]].correctOptionId}
        score == percentage(Cardinality(correct), Len(qs))
    IN  [kind |-> "results",
         score |-> score,
         passed |-> (score > row.passingScore),
         passingScore |-> row.passingScore,
         totalQuestions |-> Len(qs),
         correctAnswers |-> Cardinality(correct),
         incorrectAnswers |-> Cardinality(answered \ correct),
         unansweredQuestions |-> Len(qs) - Cardinality(answered)]

\* the results of an exam: each question of the session is correct, incorrect
\* or unanswered; the score is the percentage of correct ones among all of them
calculateResults(row, table) ==
    LET qs == row.questions
        answered == {i \in 1..Len(qs) : qs[i] \in DOMAIN row.answers}
        correct == {i \in answered : row.answers[qs[i]] = table[qs[i]].correctOptionId}
        score == percentage(Cardinality(correct), Len(qs))
    IN  [kind |-> "results",
         score |-> score,
         passed |-> (score >= row.passingScore),
         passingScore |-> row.passingScore,
         totalQuestions |-> Len(qs),
         correctAnswers |-> Cardinality(correct),
         incorrectAnswers |-> Cardinality(answered \ correct),
         unansweredQuestions |-> Len(qs) - Cardinality(answered)]

\* submitExam and abandonExam: the session is looked up for the caller; submitExam
\* scores the answers it has read
ExamFind(c) ==
    /\ clPc[c] = "idle"
    /\ \E u \in Users, id \in ExamIds, op \in {"complete", "abandon"} :
        IF ~findById(exams, id, u)
        THEN /\ clResp' = [clResp EXCEPT ![c] = "not_found"]
             /\ clData' = [clData EXCEPT ![c] = NoData]
             /\ UNCHANGED <<clPc, clUser, clArg>>
        ELSE IF exams[id].status # "IN_PROGRESS"
        THEN /\ clResp' = [clResp EXCEPT ![c] = "bad_request"]
             /\ clData' = [clData EXCEPT ![c] = NoData]
             /\ UNCHANGED <<clPc, clUser, clArg>>
        ELSE /\ clPc' = [clPc EXCEPT ![c] = op]
             /\ clUser' = [clUser EXCEPT ![c] = u]
             /\ clArg' = [clArg EXCEPT ![c] = id]
             /\ clData' = [clData EXCEPT ![c] =
                    IF op = "complete" THEN calculateResults(examData[id], questions)
                    ELSE NoData]
             /\ clResp' = [clResp EXCEPT ![c] = "pending"]
    /\ UNCHANGED <<dbVars, whVars, rdVars, puVars, pvVars, stVars,
                   now, dailyUsage, progress, exams, served, questions, examData>>

\* submitExam: the session is completed with the score
SubmitExamComplete(c) ==
    /\ clPc[c] = "complete"
    /\ exams' = complete(exams, clArg[c])
    /\ examData' = [examData EXCEPT ![clArg[c]].score = clData[c].score]
    /\ clPc' = [clPc EXCEPT ![c] = "idle"]
    /\ clUser' = [clUser EXCEPT ![c] = NoUser]
    /\ clArg' = [clArg EXCEPT ![c] = 0]
    /\ clData' = [clData EXCEPT ![c] = NoData]
    /\ clResp' = [clResp EXCEPT ![c] = "completed"]
    /\ UNCHANGED <<dbVars, whVars, rdVars, puVars, pvVars, stVars, now, dailyUsage, progress, served,
                   questions>>

\* abandonExam: the session is abandoned
AbandonExamWrite(c) ==
    /\ clPc[c] = "abandon"
    /\ exams' = abandon(exams, clArg[c])
    /\ clPc' = [clPc EXCEPT ![c] = "idle"]
    /\ clUser' = [clUser EXCEPT ![c] = NoUser]
    /\ clArg' = [clArg EXCEPT ![c] = 0]
    /\ clResp' = [clResp EXCEPT ![c] = "abandoned"]
    /\ UNCHANGED <<dbVars, whVars, rdVars, puVars, pvVars, stVars, now, dailyUsage, progress, served,
                   sessVars>>

(***************************************************************************)
(* MockExamService, the operations on a session: saveAnswer, toggleFlag,   *)
(* getExamState, getResults.  Each looks the session up for the caller;    *)
(* saveAnswer and toggleFlag then write back the whole JSON column they    *)
(* have read, with the one entry changed.                                  *)
(***************************************************************************)
QuestionIdInputs == {"q1", "qx"}
FlagIdInputs == {"q1", "qx"}
OptionIds == {"a", "b"}

\* the ids in a question list
idsOf(qs) == {qs[i] : i \in 1..Len(qs)}

\* saveAnswer fails for a session that is not the caller's, is not in progress,
\* or does not have the question
saveAnswerRefusal(id, u, q) ==
    IF ~findById(exams, id, u) THEN "not_found"
    ELSE IF exams[id].status # "IN_PROGRESS" THEN "bad_request"
    ELSE IF q \notin idsOf(examData[id].questions) THEN "bad_question"
    ELSE "none"

\* saveAnswer up to its write, for requests naming one of the given questions:
\* the session is looked up and checked, and the answers it holds are read
SaveAnswerFindOf(c, qids) ==
    /\ clPc[c] = "idle"
    /\ \E u \in Users, id \in ExamIds, q \in qids, opt \in OptionIds :
        IF saveAnswerRefusal(id, u, q) # "none"
        THEN /\ clResp' = [clResp EXCEPT ![c] = saveAnswerRefusal(id, u, q)]
             /\ clData' = [clData EXCEPT ![c] =
                    IF saveAnswerRefusal(id, u, q) = "not_found"
                    THEN Refused(u, id) ELSE NoData]
             /\ UNCHANGED <<clPc, clUser, clArg>>
        ELSE /\ clPc' = [clPc EXCEPT ![c] = "saveAnswer"]
             /\ clUser' = [clUser EXCEPT ![c] = u]
             /\ clArg' = [clArg EXCEPT ![c] = id]
             /\ clData' = [clData EXCEPT ![c] =
                    [kind |-> "answers", questionId |-> q, selectedOptionId |-> opt,
                     value |-> (q :> opt) @@ examData[id].answers]]
             /\ clResp' = [clResp EXCEPT ![c] = "pending"]
    /\ UNCHANGED <<dbVars, whVars, rdVars, puVars, pvVars, stVars,
                   now, dailyUsage, progress, exams, served, questions, examData>>

SaveAnswerFind(c) == SaveAnswerFindOf(c, QuestionIdInputs)

SaveAnswerWrite(c) ==
    /\ clPc[c] = "saveAnswer"
    /\ examData' = updateAnswers(examData, clArg[c], clData[c].value)
    /\ clPc' = [clPc EXCEPT ![c] = "idle"]
    /\ clUser' = [clUser EXCEPT ![c] = NoUser]
    /\ clArg' = [clArg EXCEPT ![c] = 0]
    /\ clData' = [clData EXCEPT ![c] = NoData]
    /\ clResp' = [clResp EXCEPT ![c] = "saved"]
    /\ UNCHANGED <<dbVars, whVars, rdVars, puVars, pvVars, stVars,
                   now, dailyUsage, progress, exams, served, questions>>

\* toggleFlag makes the ownership and state checks of saveAnswer
toggleFlagRefusal(id, u) ==
    IF ~findById(exams, id, u) THEN "not_found"
    ELSE IF exams[id].status # "IN_PROGRESS" THEN "bad_request"
    ELSE "none"

ToggleFlagFind(c) ==
    /\ clPc[c] = "idle"
    /\ \E u \in Users, id \in ExamIds, q \in FlagIdInputs, flagged \in BOOLEAN :
        IF toggleFlagRefusal(id, u) # "none"
        THEN /\ clResp' = [clResp EXCEPT ![c] = toggleFlagRefusal(id, u)]
             /\ clData' = [clData EXCEPT ![c] =
                    IF toggleFlagRefusal(id, u) = "not_found"
                    THEN Refused(u, id) ELSE NoData]
             /\ UNCHANGED <<clPc, clUser, clArg>>
        ELSE /\ clPc' = [clPc EXCEPT ![c] = "toggleFlag"]
             /\ clUser' = [clUser EXCEPT ![c] = u]
             /\ clArg' = [clArg EXCEPT ![c] = id]
             /\ clData' = [clData EXCEPT ![c] =
                    [kind |-> "flags",
                     value |-> IF flagged THEN examData[id].flaggedQuestions \cup {q}
                               ELSE examData[id].flaggedQuestions \ {q}]]
             /\ clResp' = [clResp EXCEPT ![c] = "pending"]
    /\ UNCHANGED <<dbVars, whVars, rdVars, puVars, pvVars, stVars,
                   now, dailyUsage, progress, exams, served, questions, examData>>

ToggleFlagWrite(c) ==
    /\ clPc[c] = "toggleFlag"
    /\ examData' = updateFlags(examData, clArg[c], clData[c].value)
    /\ clPc' = [clPc EXCEPT ![c] = "idle"]
    /\ clUser' = [clUser EXCEPT ![c] = NoUser]
    /\ clArg' = [clArg EXCEPT ![c] = 0]
    /\ clData' = [clData EXCEPT ![c] = NoData]
    /\ clResp' = [clResp EXCEPT ![c] = "flagged"]
    /\ UNCHANGED <<dbVars, whVars, rdVars, puVars, pvVars, stVars,
                   now, dailyUsage, progress, exams, served, questions>>

\* what getExamState returns: it is the data of this session
examState(id) == [kind |-> "state", examId |-> id]

\* getExamState: the snapshot of the caller's session, whatever its status
getExamState(id, u) ==
    IF ~findById(exams, id, u) THEN "not_found" ELSE "state"

GetExamState(c) ==
    /\ clPc[c] = "idle"
    /\ \E u \in Users, id \in ExamIds :
        /\ clResp' = [clResp EXCEPT ![c] = getExamState(id, u)]
        /\ clData' = [clData EXCEPT ![c] =
                IF getExamState(id, u) = "state" THEN examState(id) ELSE Refused(u, id)]
    /\ UNCHANGED <<dbVars, whVars, rdVars, puVars, pvVars, stVars, now, dailyUsage, progress, exams,
                   served, clPc, clUser, clArg, questions, examData>>

\* what getResults returns: it is the results of this session
examResults(id) == [kind |-> "results", examId |-> id]

\* getResults: the results of the caller's completed session
getResults(id, u) ==
    IF ~findById(exams, id, u) THEN "not_found"
    ELSE IF exams[id].status # "COMPLETED" THEN "bad_request"
    ELSE "results"

GetResults(c) ==
    /\ clPc[c] = "idle"
    /\ \E u \in Users, id \in ExamIds :
        /\ clResp' = [clResp EXCEPT ![c] = getResults(id, u)]
        /\ clData' = [clData EXCEPT ![c] =
                CASE getResults(id, u) = "results" -> examResults(id)
                  [] getResults(id, u) = "not_found" -> Refused(u, id)
                  [] OTHER -> NoData]
    /\ UNCHANGED <<dbVars, whVars, rdVars, puVars, pvVars, stVars, now, dailyUsage, progress, exams,
                   served, clPc, clUser, clArg, questions, examData>>

SessionSizes == {1, 2}
SessionDTOs ==
    {CreateDTO(MIXED, NULL, 50), CreateDTO({"VERBAL"}, NULL, 50),
     CreateDTO({"VERBAL"}, "EASY", 50)}

CreateSessionCheck(c) == CreateMockExamCheckOf(c, SessionSizes, SessionDTOs)

CreateStep(c) ==
    \/ CreateSessionCheck(c)
    \/ CreateMockExamPersist(c)

SessionStep(c) ==
    \/ SaveAnswerFind(c)
    \/ SaveAnswerWrite(c)
    \/ ToggleFlagFind(c)
    \/ ToggleFlagWrite(c)
    \/ ExamFind(c)
    \/ SubmitExamComplete(c)
    \/ AbandonExamWrite(c)
    \/ GetExamState(c)
    \/ GetResults(c)

MockExamStep(c) ==
    \/ CreateMockExamCheck(c)
    \/ CreateMockExamPersist(c)
    \/ ExamFind(c)
    \/ SubmitExamComplete(c)
    \/ AbandonExamWrite(c)

(***************************************************************************)
(* StreakRepository and StreakService.updateStreak, which a practice       *)
(* submission triggers.  Dates are UTC days.                               *)
(***************************************************************************)
\* user_streaks.last_activity_date IS NULL; a date is a day, 0 or later
NoDate == -1

\* a new row: current_streak and longest_streak default to 0
StreakRow == [currentStreak |-> 0, longestStreak |-> 0, lastActivityDate |-> NoDate]

\* StreakRepository.findOrCreate: the row of the user, created when missing
findOrCreate(table, u) == IF u \in DOMAIN table THEN table ELSE table @@ (u :> StreakRow)

\* Math.max
Max(a, b) == IF a >= b THEN a ELSE b

\* a variant that lets the longest streak follow the current one
incrementStreak_LongestFollows(table, u, read, date) ==
    [table EXCEPT ![u] = [currentStreak |-> read.currentStreak + 1,
                          longestStreak |-> read.currentStreak + 1,
                          lastActivityDate |-> getDateOnly(date)]]

\* StreakRepository.incrementStreak, the update: one more than the streak that
\* was read, the longest streak raised to it, the activity date set
incrementStreak(table, u, read, date) ==
    [table EXCEPT ![u] = [currentStreak |-> read.currentStreak + 1,
                          longestStreak |-> Max(read.currentStreak + 1, read.longestStreak),
                          lastActivityDate |-> getDateOnly(date)]]

\* StreakRepository.resetStreak: the streak and the activity date are cleared
resetStreak(table, u) ==
    [table EXCEPT ![u].currentStreak = 0, ![u].lastActivityDate = NoDate]

\* the locals of updateStreak: the instant of the submission, the row at the
\* start of the call, and the row as incrementStreak read it
StreakData(u, date, prior, read) ==
    [kind |-> "streak", userId |-> u, date |-> date, prior |-> prior, read |-> read]

\* updateStreak: the row is read and compared with today: nothing to do on the
\* day of the last activity, a longer gap than a day resets the streak first
UpdateStreakFind(c) ==
    /\ clPc[c] = "idle"
    /\ \E u \in Users :
        LET table == findOrCreate(streaks, u)
            last == table[u].lastActivityDate
        IN  /\ streaks' = table
            /\ clData' = [clData EXCEPT ![c] = StreakData(u, now, table[u], table[u])]
            /\ IF last # NoDate /\ last = getTodayDateUTC
               THEN /\ clResp' = [clResp EXCEPT ![c] = "streak_unchanged"]
                    /\ UNCHANGED <<clPc, clUser>>
               ELSE /\ clPc' = [clPc EXCEPT ![c] =
                          IF last = NoDate \/ last = getTodayDateUTC - 1
                          THEN "streakRead" ELSE "streakReset"]
                    /\ clUser' = [clUser EXCEPT ![c] = u]
                    /\ clResp' = [clResp EXCEPT ![c] = "pending"]
    /\ UNCHANGED <<dbVars, whVars, rdVars, puVars, pvVars,
                   now, dailyUsage, progress, exams, served, clArg, questions, examData>>

\* updateStreak after missed days: resetStreak
UpdateStreakReset(c) ==
    /\ clPc[c] = "streakReset"
    /\ streaks' = resetStreak(streaks, clUser[c])
    /\ clPc' = [clPc EXCEPT ![c] = "streakRead"]
    /\ UNCHANGED <<dbVars, whVars, rdVars, puVars, pvVars,
                   now, dailyUsage, progress, exams, served, clUser, clArg, clResp, sessVars>>

\* incrementStreak, first call: findOrCreate reads the row
UpdateStreakRead(c) ==
    /\ clPc[c] = "streakRead"
    /\ streaks' = findOrCreate(streaks, clUser[c])
    /\ clData' = [clData EXCEPT ![c].read = findOrCreate(streaks, clUser[c])[clUser[c]]]
    /\ clPc' = [clPc EXCEPT ![c] = "streakWrite"]
    /\ UNCHANGED <<dbVars, whVars, rdVars, puVars, pvVars,
                   now, dailyUsage, progress, exams, served, clUser, clArg, clResp,
                   questions, examData>>

\* incrementStreak, second call: update
UpdateStreakWrite(c) ==
    /\ clPc[c] = "streakWrite"
    /\ streaks' = incrementStreak(streaks, clUser[c], clData[c].read, clData[c].date)
    /\ clPc' = [clPc EXCEPT ![c] = "idle"]
    /\ clUser' = [clUser EXCEPT ![c] = NoUser]
    /\ clData' = [clData EXCEPT ![c] = NoData]
    /\ clResp' = [clResp EXCEPT ![c] = "streak_updated"]
    /\ UNCHANGED <<dbVars, whVars, rdVars, puVars, pvVars,
                   now, dailyUsage, progress, exams, served, clArg, questions, examData>>

\* a practice submission that arrives while no other request is being handled
UpdateStreakAlone(c) ==
    /\ \A d \in ClientIds \ {c} : clPc[d] = "idle"
    /\ UpdateStreakFind(c)

UpdateStreakStep(c) ==
    \/ UpdateStreakAlone(c)
    \/ UpdateStreakReset(c)
    \/ UpdateStreakRead(c)
    \/ UpdateStreakWrite(c)

\* midnight UTC passes
NextDay ==
    /\ getTodayDateUTC < MaxStreakDay
    /\ now' = now + TicksPerDay
    /\ UNCHANGED <<dbVars, whVars, rdVars, puVars, pvVars, stVars, sessVars,
                   dailyUsage, progress, exams, served, clVars>>

(***************************************************************************)
(* Initial state                                                           *)
(***************************************************************************)
FreeUser == [isPremium |-> FALSE, premiumExpiry |-> NoExpiry]

InitDb ==
    /\ users = [u \in Users |-> FreeUser]
    /\ subs \in {{}, {SubRow("u2", "expired", "gcash", "old_txn", NULL, "paymongo")}}
    /\ codes = [c \in {"RG-AAAAA-AAAAA", "RG-BBBBB-BBBBB"} |->
                  [isRedeemed |-> FALSE, redeemedBy |-> NULL,
                   expired |-> (c = "RG-BBBBB-BBBBB")]]

InitHandlers ==
    /\ whPc = [h \in WebhookIds |-> "idle"]
    /\ whEvent = [h \in WebhookIds |-> NoEvent]
    /\ whTx = [h \in WebhookIds |-> {}]
    /\ whResp = [h \in WebhookIds |-> "none"]
    /\ rdPc = [r \in RedeemerIds |-> "idle"]
    /\ rdUser = [r \in RedeemerIds |-> NoUser]
    /\ rdCode = [r \in RedeemerIds |-> NULL]
    /\ rdExisting = [r \in RedeemerIds |-> NoRow]
    /\ rdResp = [r \in RedeemerIds |-> "none"]
    /\ puPc = [p \in PurchaserIds |-> "idle"]
    /\ puUser = [p \in PurchaserIds |-> NoUser]
    /\ puTxn = [p \in PurchaserIds |-> NULL]
    /\ puResp = [p \in PurchaserIds |-> "none"]
    /\ verifications = << >>
    /\ pvPc = [a \in AdminIds |-> "idle"]
    /\ pvArg = [a \in AdminIds |-> 0]
    /\ pvResp = [a \in AdminIds |-> "none"]
    /\ streaks = << >>

\* a question table with a single question
OneQuestion == ("q1" :> QuestionRow("VERBAL", "EASY", "a"))

InitQuota ==
    /\ now = 0
    /\ dailyUsage = << >>
    /\ progress = [u \in Users |-> 0]
    /\ exams = << >>
    /\ served = << >>
    /\ clPc = [c \in ClientIds |-> "idle"]
    /\ clUser = [c \in ClientIds |-> NoUser]
    /\ clArg = [c \in ClientIds |-> 0]
    /\ clResp = [c \in ClientIds |-> "none"]
    /\ questions = OneQuestion
    /\ examData = << >>
    /\ clData = [c \in ClientIds |-> NoData]

Init == InitDb /\ InitHandlers /\ InitQuota

\* no subscription has ever been sold
InitFresh == Init /\ subs = {}

NextWebhook == \E h \in WebhookIds : WebhookStep(h)

SpecWebhook == Init /\ [][NextWebhook]_vars

NextRedeem == \E r \in RedeemerIds : RedeemStep(r)

SpecRedeem == Init /\ [][NextRedeem]_vars

NextPurchase == \E p \in PurchaserIds : PurchaseStep(p)

SpecPurchase == Init /\ [][NextPurchase]_vars

\* u1 has used up today's practice limit and this month's mock exams; each
\* user is free, or has been activated (active subscription, premium flag set,
\* no expiry) by one of the payment paths
PremiumUser == [isPremium |-> TRUE, premiumExpiry |-> NoExpiry]

InitPremium ==
    /\ users \in [Users -> {FreeUser, PremiumUser}]
    /\ subs = {SubRow(u, "active", "gcash", "txn1", NULL, "paymongo") :
                  u \in {x \in Users : users[x] = PremiumUser}}
    /\ codes = [c \in {"RG-AAAAA-AAAAA", "RG-BBBBB-BBBBB"} |->
                  [isRedeemed |-> FALSE, redeemedBy |-> NULL,
                   expired |-> (c = "RG-BBBBB-BBBBB")]]
    /\ InitHandlers
    /\ now = 0
    /\ dailyUsage = (<<"u1", 0>> :> FREE_TIER_PRACTICE_LIMIT_PER_DAY)
    /\ served = dailyUsage
    /\ progress = [u \in Users |-> IF u = "u1" THEN FREE_TIER_PRACTICE_LIMIT_PER_DAY ELSE 0]
    /\ exams = [i \in 1..FREE_TIER_MOCK_EXAMS_PER_MONTH |->
                  [ExamRow("u1", FREE_TIER_MOCK_EXAM_QUESTIONS_LIMIT, 0)
                     EXCEPT !.status = "COMPLETED", !.completedAt = 0]]
    /\ clPc = [c \in ClientIds |-> "idle"]
    /\ clUser = [c \in ClientIds |-> NoUser]
    /\ clArg = [c \in ClientIds |-> 0]
    /\ clResp = [c \in ClientIds |-> "none"]
    /\ questions = OneQuestion
    /\ examData = [i \in 1..FREE_TIER_MOCK_EXAMS_PER_MONTH |->
                     [ExamDataRow(MIXED, NULL, 80, <<"q1">>) EXCEPT !.score = 0]]
    /\ clData = [c \in ClientIds |-> NoData]

\* a question table with three questions
ThreeQuestions ==
    ("q1" :> QuestionRow("VERBAL", "EASY", "a"))
        @@ ("q2" :> QuestionRow("VERBAL", "HARD", "b"))
        @@ ("q3" :> QuestionRow("NUMERICAL", "EASY", "a"))

InitClients ==
    /\ clPc = [c \in ClientIds |-> "idle"]
    /\ clUser = [c \in ClientIds |-> NoUser]
    /\ clArg = [c \in ClientIds |-> 0]
    /\ clResp = [c \in ClientIds |-> "none"]
    /\ clData = [c \in ClientIds |-> NoData]

InitNoUsage ==
    /\ InitDb /\ subs = {}
    /\ InitHandlers
    /\ now = 0
    /\ dailyUsage = << >>
    /\ served = << >>
    /\ progress = [u \in Users |-> 0]

\* sessions from before: one completed by u1 with one of two answers right, one
\* abandoned by u2
CompletedBefore ==
    [ExamRow("u1", 2, 0) EXCEPT !.status = "COMPLETED", !.completedAt = 0]
CompletedDataBefore ==
    [ExamDataRow(MIXED, NULL, 50, <<"q1", "q2">>)
        EXCEPT !.answers = ("q1" :> "a") @@ ("q2" :> "a"), !.score = 50]
AbandonedBefore == [ExamRow("u2", 1, 0) EXCEPT !.status = "ABANDONED"]
AbandonedDataBefore ==
    [ExamDataRow(MIXED, NULL, 50, <<"q3">>) EXCEPT !.flaggedQuestions = {"q3"}]

\* two finished sessions and a session of u1 in progress
InitSession ==
    /\ InitNoUsage
    /\ InitClients
    /\ questions = ThreeQuestions
    /\ exams = <<CompletedBefore, AbandonedBefore, ExamRow("u1", 2, 0)>>
    /\ examData = <<CompletedDataBefore, AbandonedDataBefore,
                    ExamDataRow({"VERBAL"}, NULL, 50, <<"q1", "q2">>)>>

NextSession == \E c \in ClientIds : SessionStep(c)

SpecSession == InitSession /\ [][NextSession]_vars

\* two finished sessions; further sessions can be created
InitCreate ==
    /\ InitNoUsage
    /\ InitClients
    /\ questions = ThreeQuestions
    /\ exams = <<CompletedBefore, AbandonedBefore>>
    /\ examData = <<CompletedDataBefore, AbandonedDataBefore>>

NextCreate == \E c \in ClientIds : CreateStep(c)

SpecCreate == InitCreate /\ [][NextCreate]_vars

\* a question table with five questions, and one session of u1 in progress with
\* five or three of them, any of them answered with any option, to be passed
\* with 60 or with 80
FiveQuestions ==
    [q \in {"q1", "q2", "q3", "q4", "q5"} |->
        QuestionRow("VERBAL", "EASY", IF q \in {"q2", "q4"} THEN "b" ELSE "a")]

InitScore ==
    /\ InitNoUsage
    /\ InitClients
    /\ questions = FiveQuestions
    /\ \E qs \in {<<"q1", "q2", "q3", "q4", "q5">>, <<"q1", "q2", "q3">>},
          passingScore \in {60, 80} :
        \E S \in SUBSET idsOf(qs) :
            \E answers \in [S -> OptionIds] :
                /\ exams = <<ExamRow("u1", Len(qs), 0)>>
                /\ examData = <<[ExamDataRow(MIXED, NULL, passingScore, qs)
                                    EXCEPT !.answers = answers]>>

ScoreStep(c) ==
    \/ ExamFind(c)
    \/ SubmitExamComplete(c)
    \/ AbandonExamWrite(c)

NextScore == \E c \in ClientIds : ScoreStep(c)

SpecScore == InitScore /\ [][NextScore]_vars

\* u1 is one submission short of today's practice limit; a burst of requests
\* arrives together
InitBurst ==
    /\ InitDb /\ subs = {}
    /\ InitHandlers
    /\ now = 0
    /\ dailyUsage = (<<"u1", 0>> :> (FREE_TIER_PRACTICE_LIMIT_PER_DAY - 1))
    /\ served = dailyUsage
    /\ progress = [u \in Users |->
                     IF u = "u1" THEN FREE_TIER_PRACTICE_LIMIT_PER_DAY - 1 ELSE 0]
    /\ questions = OneQuestion
    /\ exams = << >>
    /\ examData = << >>
    /\ clPc = [c \in BurstIds |-> "idle"]
    /\ clUser = [c \in BurstIds |-> NoUser]
    /\ clArg = [c \in BurstIds |-> 0]
    /\ clResp = [c \in BurstIds |-> "none"]
    /\ clData = [c \in BurstIds |-> NoData]

NextBurst == \E c \in BurstIds : SubmitAnswerStep(c)

SpecBurst == InitBurst /\ [][NextBurst]_vars

\* answers to the two questions of the session in progress
AnswerIdInputs == {"q1", "q2"}

NextAnswer ==
    \E c \in ClientIds : SaveAnswerFindOf(c, AnswerIdInputs) \/ SaveAnswerWrite(c)

SpecAnswer == InitSession /\ [][NextAnswer]_vars

NextVerification == \E a \in AdminIds : VerificationStep(a)

SpecVerification == InitFresh /\ [][NextVerification]_vars

NextPractice == (\E c \in ClientIds : SubmitAnswerStep(c)) \/ Tick

SpecPractice == InitFresh /\ [][NextPractice]_vars

NextMockExam == \E c \in ClientIds : MockExamStep(c)

SpecMockExam == InitFresh /\ [][NextMockExam]_vars

NextPremium == \E c \in ClientIds : SubmitAnswerStep(c) \/ MockExamStep(c)

SpecPremium == InitPremium /\ [][NextPremium]_vars

\* u1 has used up today's practice limit and this month's mock exams and is
\* free, premium without an expiry, premium until an instant of the first day,
\* or not premium with an expiry left in the row; the clock advances
ExpiryInputs == {1, 2}

InitEntitlement ==
    /\ \/ users = [u \in Users |-> FreeUser]
       \/ users = [u \in Users |-> IF u = "u1" THEN PremiumUser ELSE FreeUser]
       \/ \E e \in ExpiryInputs, flag \in BOOLEAN :
            users = [u \in Users |-> IF u = "u1"
                                     THEN [isPremium |-> flag, premiumExpiry |-> e]
                                     ELSE FreeUser]
    /\ subs = {SubRow(u, "active", "gcash", "txn1", NULL, "paymongo") :
                  u \in {x \in Users : users[x].isPremium}}
    /\ codes = [c \in {"RG-AAAAA-AAAAA", "RG-BBBBB-BBBBB"} |->
                  [isRedeemed |-> FALSE, redeemedBy |-> NULL,
                   expired |-> (c = "RG-BBBBB-BBBBB")]]
    /\ InitHandlers
    /\ InitClients
    /\ now = 0
    /\ dailyUsage = (<<"u1", 0>> :> FREE_TIER_PRACTICE_LIMIT_PER_DAY)
    /\ served = dailyUsage
    /\ progress = [u \in Users |-> IF u = "u1" THEN FREE_TIER_PRACTICE_LIMIT_PER_DAY ELSE 0]
    /\ exams = [i \in 1..FREE_TIER_MOCK_EXAMS_PER_MONTH |->
                  [ExamRow("u1", FREE_TIER_MOCK_EXAM_QUESTIONS_LIMIT, 0)
                     EXCEPT !.status = "COMPLETED", !.completedAt = 0]]
    /\ questions = OneQuestion
    /\ examData = [i \in 1..FREE_TIER_MOCK_EXAMS_PER_MONTH |->
                     [ExamDataRow(MIXED, NULL, 80, <<"q1">>) EXCEPT !.score = 0]]

NextEntitlement ==
    \/ \E c \in ClientIds :
        SubmitAnswerStep(c) \/ CreateMockExamCheck(c) \/ CreateMockExamPersist(c)
    \/ Tick

SpecEntitlement == InitEntitlement /\ [][NextEntitlement]_vars

\* practice submissions of a user come one after the other, on the same day or
\* on later days
NextStreak == (\E c \in ClientIds : UpdateStreakStep(c)) \/ NextDay

SpecStreak == InitFresh /\ [][NextStreak]_vars

(***************************************************************************)
(* Properties                                                              *)
(***************************************************************************)
ActiveSubOf(u) == \E s \in subs : s.userId = u /\ s.status = "active"

\* C1: under webhook deliveries only, the subscription row of a payment event
\* and the premium flag of its user are present together or absent together in
\* every reachable state, a failure inside the transaction included: a row that
\* carries a payment reference belongs to a premium user, and a premium user has
\* the row of a payment reference.
C1_WebhookActivationAtomic ==
    /\ \A s \in subs : s.referenceNumber \in Refs => users[s.userId].isPremium
    /\ \A u \in Users : users[u].isPremium =>
            \E s \in subs : s.userId = u /\ s.referenceNumber \in Refs

\* one delivery committed both writes, another failed inside its transaction and
\* left neither
C1_Witness ==
    \E h, g \in WebhookIds :
        /\ whPc[h] = "done" /\ whResp[h] = "200_received"
        /\ IsPaidType(whEvent[h].type) /\ whEvent[h].userId \in Users
        /\ findByReferenceNumber(subs, whEvent[h].ref)
        /\ users[whEvent[h].userId].isPremium
        /\ whPc[g] = "failed"
        /\ ~findByReferenceNumber(subs, whEvent[g].ref)
        /\ ~users[whEvent[g].userId].isPremium

\* C2: when a redeemCode call has ended (returned or failed), a code it left
\* marked redeemed by its user comes with that user's active subscription and
\* premium flag.
C2_RedeemAtomic ==
    \A r \in RedeemerIds :
        (/\ rdPc[r] \in {"done", "failed"}
         /\ rdCode[r] \in DOMAIN codes
         /\ codes[rdCode[r]].isRedeemed
         /\ codes[rdCode[r]].redeemedBy = rdUser[r])
        => (ActiveSubOf(rdUser[r]) /\ users[rdUser[r]].isPremium)

\* C3: when a purchaseSubscription call has ended (returned or failed), an active
\* subscription row it wrote comes with the user's premium flag.
C3_PurchaseAtomic ==
    \A p \in PurchaserIds :
        (/\ puPc[p] \in {"done", "failed"}
         /\ \E s \in subs : /\ s.userId = puUser[p] /\ s.status = "active"
                            /\ s.transactionId = puTxn[p])
        => users[puUser[p]].isPremium

\* C4: a reference has at most one subscription row, the user of that row is
\* premium, and a delivery whose lookup finds the row of its reference writes
\* nothing and is acknowledged with HTTP 200 (received).
C4_WebhookIdempotent ==
    /\ [](\A r \in Refs : Cardinality({s \in subs : s.referenceNumber = r}) <= 1)
    /\ [](\A s \in subs : s.referenceNumber \in Refs => users[s.userId].isPremium)
    /\ [][\A h \in WebhookIds :
            (/\ whPc[h] = "find" /\ whPc'[h] # "find"
             /\ findByReferenceNumber(subs, whEvent[h].ref))
            => (/\ whPc'[h] = "done" /\ whResp'[h] = "200_received"
                /\ dbVars' = dbVars)]_vars

\* the same signed payment event delivered twice, both acknowledged, one row
C4_Witness ==
    \E h, g \in WebhookIds :
        /\ h # g /\ whEvent[h] = whEvent[g]
        /\ IsPaidType(whEvent[h].type) /\ whEvent[h].userId \in Users
        /\ whPc[h] = "done" /\ whPc[g] = "done"
        /\ whResp[h] = "200_received" /\ whResp[g] = "200_received"
        /\ Cardinality({s \in subs : s.referenceNumber = whEvent[h].ref}) = 1
        /\ users[whEvent[h].userId].isPremium

\* the step of redeemCode r that validates a code already marked redeemed
RedeemedAtValidate(r) ==
    /\ rdPc[r] = "validate" /\ rdPc'[r] # "validate"
    /\ rdCode[r] \in DOMAIN codes
    /\ codes[rdCode[r]].isRedeemed

C6_OneUserPerCode ==
    \A c \in DOMAIN codes :
        Cardinality({u \in Users : /\ users[u].isPremium
                                   /\ \E s \in subs : /\ s.userId = u
                                                      /\ s.status = "active"
                                                      /\ s.transactionId = c}) <= 1

\* practice submissions of the user answered on the current day
ServedToday(u) ==
    IF <<u, getTodayDateUTC>> \in DOMAIN served THEN served[<<u, getTodayDateUTC>>] ELSE 0

\* C7: for a free user the daily limit is reached exactly when 15 submissions
\* have been answered on the current day: a submission is let through only
\* while fewer than 15 were answered (the 1st to the 15th), and a submission is
\* refused as forbidden only when 15 were (the 16th and later).
C7_DailyPracticeLimit ==
    /\ [](\A u \in Users : ~isPremiumUser(users[u]) =>
            (dailyLimitReached(u) <=> ServedToday(u) >= FREE_TIER_PRACTICE_LIMIT_PER_DAY))
    /\ [][\A c \in ClientIds : (clPc[c] = "idle" /\ clPc'[c] = "action") =>
            ServedToday(clUser'[c]) < FREE_TIER_PRACTICE_LIMIT_PER_DAY]_vars
    /\ [][\A c \in ClientIds :
            (clResp'[c] = "forbidden_daily" /\ clResp[c] # "forbidden_daily") =>
            (\E u \in Users : ServedToday(u) >= FREE_TIER_PRACTICE_LIMIT_PER_DAY)]_vars

\* fifteen submissions of a free user were answered today and the next one was
\* refused
C7_Witness ==
    \E c \in ClientIds, u \in Users :
        /\ ~isPremiumUser(users[u])
        /\ ServedToday(u) = FREE_TIER_PRACTICE_LIMIT_PER_DAY
        /\ progress[u] = FREE_TIER_PRACTICE_LIMIT_PER_DAY
        /\ \A d \in ClientIds : clPc[d] = "idle"
        /\ clResp[c] = "forbidden_daily"

\* C8: for a free user a createMockExam with more than 20 questions is refused
\* as forbidden and writes no session, so that no session of a free user has
\* more than 20 questions; with exactly 20 questions and fewer than 3 completed
\* exams this month it is let through and writes the session, IN_PROGRESS.
C8_MockExamQuestionCap ==
    /\ [](\A u \in Users : ~isPremiumUser(users[u]) =>
            \A n \in TotalQuestionsInputs :
                /\ n > FREE_TIER_MOCK_EXAM_QUESTIONS_LIMIT =>
                        createRefusal(u, n) = "forbidden_questions"
                /\ (/\ n = FREE_TIER_MOCK_EXAM_QUESTIONS_LIMIT
                    /\ getMonthCount(exams, u) < FREE_TIER_MOCK_EXAMS_PER_MONTH) =>
                        createRefusal(u, n) = "none")
    /\ [](\A i \in 1..Len(exams) : ~isPremiumUser(users[exams[i].userId]) =>
            exams[i].totalQuestions <= FREE_TIER_MOCK_EXAM_QUESTIONS_LIMIT)
    /\ [][\A c \in ClientIds :
            (clResp'[c] = "forbidden_questions" /\ clResp[c] # "forbidden_questions") =>
            exams' = exams]_vars
    /\ [][\A c \in ClientIds : (clPc[c] = "persist" /\ clPc'[c] = "idle") =>
            /\ clResp'[c] = "created"
            /\ exams' = Append(exams, ExamRow(clUser[c], clArg[c], now))]_vars

\* one request of a free user was refused for its size, another with 20
\* questions created the only session there is
C8_Witness ==
    \E c, d \in ClientIds :
        /\ clResp[c] = "forbidden_questions"
        /\ clResp[d] = "created"
        /\ Len(exams) = 1
        /\ ~isPremiumUser(users[exams[1].userId])
        /\ exams[1].totalQuestions = FREE_TIER_MOCK_EXAM_QUESTIONS_LIMIT
        /\ exams[1].status = "IN_PROGRESS"

\* C9: a user with isPremium = true and premiumExpiry = null is refused neither
\* a practice submission nor the creation of a mock exam of up to 170 questions,
\* whatever the day's practice count and the month's completed exams are.
C9_PremiumNeverRefused ==
    \A u \in Users : (users[u].isPremium /\ users[u].premiumExpiry = NoExpiry) =>
        /\ ~dailyLimitReached(u)
        /\ \A n \in TotalQuestionsInputs :
                n <= PREMIUM_MOCK_EXAM_QUESTIONS_LIMIT => createRefusal(u, n) = "none"

\* a premium user with 15 submissions and 3 completed exams from before got a
\* further submission answered and a session of 170 questions created
C9_Witness ==
    /\ users["u1"].isPremium /\ users["u1"].premiumExpiry = NoExpiry
    /\ getTodayCount(dailyUsage, "u1") > FREE_TIER_PRACTICE_LIMIT_PER_DAY
    /\ getMonthCount(exams, "u1") >= FREE_TIER_MOCK_EXAMS_PER_MONTH
    /\ Len(exams) > FREE_TIER_MOCK_EXAMS_PER_MONTH
    /\ exams[Len(exams)].userId = "u1"
    /\ exams[Len(exams)].totalQuestions = PREMIUM_MOCK_EXAM_QUESTIONS_LIMIT
    /\ \E c \in ClientIds : clResp[c] = "created"

\* C10: a free user has at most 3 mock exam sessions, of any status, created in
\* the current month.
C10_MonthlyCreateCap ==
    \A u \in Users : ~isPremiumUser(users[u]) =>
        Cardinality({i \in 1..Len(exams) :
                        /\ exams[i].userId = u
                        /\ MonthOf(exams[i].createdAt) = MonthOf(now)})
            <= FREE_TIER_MOCK_EXAMS_PER_MONTH

\* the session with this id is COMPLETED or ABANDONED
isTerminal(i) == exams[i].status \in {"COMPLETED", "ABANDONED"}

\* C11: a session that is COMPLETED or ABANDONED is immutable: no step changes
\* its status, answers, flagged set, score or completion timestamp, and a
\* saveAnswer, toggleFlag, submitExam or abandonExam that finds it terminal fails.
C11_TerminalImmutable ==
    /\ [][\A i \in 1..Len(exams) : isTerminal(i) =>
            (exams'[i] = exams[i] /\ examData'[i] = examData[i])]_vars
    /\ [][\A c \in ClientIds :
            (clPc[c] = "idle" /\ clPc'[c] \in {"saveAnswer", "toggleFlag", "complete", "abandon"})
            => ~isTerminal(clArg'[c])]_vars

\* C12: in every state the keys of a session's answers and the members of its
\* flagged set are among the question ids fixed at creation, and a saveAnswer
\* with a question id outside them fails and leaves every session unchanged.
C12_AnswersAndFlagsWithinQuestions ==
    /\ [](\A i \in 1..Len(exams) :
            /\ DOMAIN examData[i].answers \subseteq idsOf(examData[i].questions)
            /\ examData[i].flaggedQuestions \subseteq idsOf(examData[i].questions))
    /\ [](\A i \in 1..Len(exams), q \in QuestionIdInputs :
            q \notin idsOf(examData[i].questions) =>
                saveAnswerRefusal(i, exams[i].userId, q) # "none")
    /\ [][\A c \in ClientIds :
            (clResp'[c] = "bad_question" /\ clResp[c] # "bad_question") =>
                (examData' = examData /\ clPc'[c] = "idle")]_vars

\* C13: every session records exactly totalQuestions question ids, pairwise
\* distinct, each of a question that the session's category and difficulty
\* filter lets through, whatever the number of such questions is.
C13_ExactlyNDistinctQuestions ==
    \A i \in 1..Len(exams) :
        LET qs == examData[i].questions IN
        /\ Len(qs) = exams[i].totalQuestions
        /\ \A j, k \in 1..Len(qs) : qs[j] = qs[k] => j = k
        /\ \A j \in 1..Len(qs) :
            /\ qs[j] \in DOMAIN questions
            /\ (examData[i].categories # MIXED =>
                    questions[qs[j]].category \in examData[i].categories)
            /\ (examData[i].difficulty # NULL =>
                    questions[qs[j]].difficulty = examData[i].difficulty)

\* the questions of a session that are answered with the correct option, with
\* another option, and not at all
CorrectOf(row) ==
    {q \in idsOf(row.questions) :
        q \in DOMAIN row.answers /\ row.answers[q] = questions[q].correctOptionId}
IncorrectOf(row) ==
    {q \in idsOf(row.questions) :
        q \in DOMAIN row.answers /\ row.answers[q] # questions[q].correctOptionId}
UnansweredOf(row) == idsOf(row.questions) \ DOMAIN row.answers

\* C14: the results submitExam computes for a session count its questions
\* answered correctly, incorrectly and not at all, the three counts add up to
\* the number of questions, the score is the percentage of correct ones among
\* all questions (within rounding; 3 of 5 with 1 wrong and 1 unanswered gives
\* 60, 3, 1, 1), passed is score >= passingScore, and the score is what the
\* completed session stores.
C14_ScoreOverAllQuestions ==
    /\ [](\A c \in ClientIds : clPc[c] = "complete" =>
            LET r == clData[c]
                row == examData[clArg[c]]
                n == Cardinality(idsOf(row.questions))
            IN  /\ r.correctAnswers = Cardinality(CorrectOf(row))
                /\ r.incorrectAnswers = Cardinality(IncorrectOf(row))
                /\ r.unansweredQuestions = Cardinality(UnansweredOf(row))
                /\ r.totalQuestions = n
                /\ r.correctAnswers + r.incorrectAnswers + r.unansweredQuestions
                        = r.totalQuestions
                /\ r.score * n - 100 * r.correctAnswers < n
                /\ 100 * r.correctAnswers - r.score * n < n
                /\ r.passed <=> (r.score >= row.passingScore)
                /\ (n = 5 /\ r.correctAnswers = 3) => r.score = 60)
    /\ [][\A c \in ClientIds : (clPc[c] = "complete" /\ clPc'[c] = "idle") =>
            /\ exams'[clArg[c]].status = "COMPLETED"
            /\ examData'[clArg[c]].score = clData[c].score]_vars

\* submitExam has scored five questions, three right, one wrong, one unanswered:
\* score 60, which passes an exam to be passed with 60
C14_Witness ==
    \E c \in ClientIds :
        /\ clPc[c] = "complete"
        /\ Len(examData[clArg[c]].questions) = 5
        /\ Cardinality(CorrectOf(examData[clArg[c]])) = 3
        /\ Cardinality(IncorrectOf(examData[clArg[c]])) = 1
        /\ Cardinality(UnansweredOf(examData[clArg[c]])) = 1
        /\ clData[c].score = 60
        /\ clData[c].correctAnswers = 3
        /\ clData[c].incorrectAnswers = 1
        /\ clData[c].unansweredQuestions = 1
        /\ clData[c].passingScore = 60
        /\ clData[c].passed

\* C15: for a user who is not the owner of a session, getExamState,
\* saveAnswer, toggleFlag, submitExam, abandonExam and getResults find no
\* session: a request goes on to its write only for the owner, a request that
\* found no session gets no session data and leaves every session unchanged.
C15_OwnershipEnforced ==
    /\ [](\A i \in 1..Len(exams), u \in Users : u # exams[i].userId =>
            /\ ~findById(exams, i, u)
            /\ getExamState(i, u) = "not_found"
            /\ getResults(i, u) = "not_found"
            /\ toggleFlagRefusal(i, u) = "not_found"
            /\ \A q \in QuestionIdInputs : saveAnswerRefusal(i, u, q) = "not_found")
    /\ [](\A c \in ClientIds : clPc[c] # "idle" =>
            /\ clArg[c] \in 1..Len(exams)
            /\ clUser[c] = exams[clArg[c]].userId)
    /\ [](\A c \in ClientIds : clResp[c] = "not_found" =>
            clData[c].kind \notin {"state", "results", "answers", "flags"})
    /\ [][\A c \in ClientIds :
            (clResp'[c] = "not_found" /\ <<clResp[c], clData[c]>> # <<clResp'[c], clData'[c]>>)
            => (exams' = exams /\ examData' = examData /\ clPc'[c] = "idle")]_vars

\* u2 asked for u1's session and found none, with no data returned, after u1 had
\* an answer saved in it
C15_Witness ==
    \E c, d \in ClientIds :
        /\ clResp[c] = "not_found"
        /\ clData[c].kind = "request"
        /\ clData[c].examId \in 1..Len(exams)
        /\ exams[clData[c].examId].userId # clData[c].userId
        /\ exams[clData[c].examId].status = "IN_PROGRESS"
        /\ DOMAIN examData[clData[c].examId].answers # {}
        /\ clResp[d] = "saved"

\* C16: incrementTodayCount loses no update: in every state the row of a user
\* and day exists exactly when a call has been made for them and its count is
\* the number of those calls, however the calls of concurrent requests
\* interleave; each call adds exactly one to today's count of its user, no count
\* ever decreases and no row disappears; getTodayCount is 0 without a row.
C16_NoLostIncrement ==
    /\ [](DOMAIN dailyUsage = DOMAIN served)
    /\ [](\A k \in DOMAIN served : dailyUsage[k] = served[k])
    /\ [](\A u \in Users : <<u, getTodayDateUTC>> \notin DOMAIN dailyUsage =>
            getTodayCount(dailyUsage, u) = 0)
    /\ [][\A k \in DOMAIN dailyUsage :
            k \in DOMAIN dailyUsage' /\ dailyUsage'[k] >= dailyUsage[k]]_vars
    /\ [][\A c \in ClientIds : (clPc[c] = "increment" /\ clPc'[c] = "idle") =>
            getTodayCount(dailyUsage', clUser[c]) = getTodayCount(dailyUsage, clUser[c]) + 1]_vars

\* two requests of one user were past the limit check together with no row for
\* the day; one has created the row with its increment, the other is about to
\* increment it
C16_Witness ==
    \E c, d \in ClientIds, u \in Users :
        /\ c # d
        /\ clResp[c] = "answered" /\ clPc[c] = "idle"
        /\ clPc[d] = "increment" /\ clUser[d] = u
        /\ progress[u] = 2
        /\ getTodayCount(dailyUsage, u) = 1
        /\ SumOf(dailyUsage) = 1

\* C17: whatever the number of concurrent practice submissions of a free user
\* is, the day's counter of the user never exceeds the limit plus one (16).
C17_OvershootAtMostOne ==
    \A k \in DOMAIN dailyUsage : ~isPremiumUser(users[k[1]]) =>
        dailyUsage[k] <= FREE_TIER_PRACTICE_LIMIT_PER_DAY + 1

\* C18: a webhook request whose signature does not verify ends at once with
\* HTTP 200 (received: false), whatever its event type, user and reference are;
\* its handler never reaches a database call, and the step that answers it
\* leaves users, subscriptions and codes unchanged.
C18_ForgedWebhookAcknowledged ==
    /\ [](\A h \in WebhookIds : (whPc[h] # "idle" /\ ~whEvent[h].sigValid) =>
            (whPc[h] = "done" /\ whResp[h] = "200_not_received" /\ whTx[h] = {}))
    /\ [][\A h \in WebhookIds :
            (whPc[h] = "idle" /\ whPc'[h] # "idle" /\ ~whEvent'[h].sigValid)
            => dbVars' = dbVars]_vars
    /\ [][\A h \in WebhookIds :
            (whPc[h] # "idle" /\ ~whEvent[h].sigValid)
            => (whPc'[h] = whPc[h] /\ whResp'[h] = whResp[h])]_vars

\* a forged link.payment.paid event for u1 was acknowledged as not received; u1
\* has no subscription for its reference and is not premium
C18_Witness ==
    \E h \in WebhookIds :
        /\ whPc[h] = "done"
        /\ ~whEvent[h].sigValid
        /\ whEvent[h].type = "link.payment.paid"
        /\ whEvent[h].userId = "u1"
        /\ whResp[h] = "200_not_received"
        /\ ~findByReferenceNumber(subs, whEvent[h].ref)
        /\ ~users["u1"].isPremium

\* C19: a payment verification is decided at most once: a record that is
\* approved or rejected never changes again, approve and reject go on to their
\* write only for a pending record, and the user of a rejected record is not
\* premium unless another record of the user was approved.
C19_DecidedOnce ==
    /\ [][\A i \in 1..Len(verifications) :
            verifications[i].status # "pending" => verifications'[i] = verifications[i]]_vars
    /\ [][\A a \in AdminIds : (pvPc[a] = "idle" /\ pvPc'[a] # "idle") =>
            verifications[pvArg'[a]].status = "pending"]_vars
    /\ [](\A i \in 1..Len(verifications) :
            (/\ verifications[i].status = "rejected"
             /\ ~\E j \in 1..Len(verifications) :
                    /\ verifications[j].userId = verifications[i].userId
                    /\ verifications[j].status = "approved")
            => ~users[verifications[i].userId].isPremium)

\* the stages of redeemCode that only check: format, code, user, subscription
RdChecking(r) == rdPc[r] \in {"idle", "validate", "findUser", "findSub"}

\* C20: a rejected redeemCode leaves the state unchanged: every step a call
\* makes while it checks the format, the code (unknown, redeemed, expired), the
\* user's premium flag and the user's subscription leaves codes, users and
\* subscriptions as they are, and a refusal (bad request or conflict) is only
\* ever answered from one of these steps, so before the call has written.
C20_RejectedRedeemChangesNothing ==
    [][\A r \in RedeemerIds :
        /\ (RdChecking(r) /\ rdPc'[r] # rdPc[r]) => dbVars' = dbVars
        /\ (rdResp'[r] # rdResp[r] /\ rdResp'[r] \in {"bad_request", "conflict"})
            => (RdChecking(r) /\ rdPc'[r] = "done" /\ dbVars' = dbVars)]_vars

\* a call refused for the user's active subscription (the user is not premium:
\* another call of the same user has written the subscription only), while the
\* code it named is still unredeemed or redeemed by somebody else's call
C20_Witness ==
    \E r, q \in RedeemerIds :
        /\ r # q /\ rdUser[q] = rdUser[r]
        /\ rdPc[r] = "done" /\ rdResp[r] = "conflict"
        /\ ~users[rdUser[r]].isPremium
        /\ \E s \in subs : s.userId = rdUser[r] /\ s.status = "active"

\* C21: entitlement follows effective premium, not the raw flag: a user has the
\* limits -1, 170, -1, -1 (practice per day, questions per exam, exams per
\* month, explanations per day) exactly when isPremium is set and premiumExpiry
\* is null or later than now, and the limits 15, 20, 3, 3 otherwise; a practice
\* submission of a user who is not effectively premium is let through only
\* below 15 submissions today, and a mock exam of such a user only with at most
\* 20 questions and below 3 completed exams this month.
C21_EntitlementFollowsEffectivePremium ==
    /\ [](\A u \in Users :
            getUserAccessLimits(users[u]) =
                IF /\ users[u].isPremium
                   /\ (users[u].premiumExpiry = NoExpiry \/ users[u].premiumExpiry > now)
                THEN [practiceLimitPerDay |-> -1, mockExamQuestionsLimit |-> 170,
                      mockExamsPerMonth |-> -1, explanationLimitPerDay |-> -1]
                ELSE [practiceLimitPerDay |-> 15, mockExamQuestionsLimit |-> 20,
                      mockExamsPerMonth |-> 3, explanationLimitPerDay |-> 3])
    /\ [][\A c \in ClientIds :
            (/\ clPc[c] = "idle" /\ clPc'[c] \in {"action", "persist"}
             /\ ~(/\ users[clUser'[c]].isPremium
                  /\ (\/ users[clUser'[c]].premiumExpiry = NoExpiry
                      \/ users[clUser'[c]].premiumExpiry > now)))
            => IF clPc'[c] = "action"
               THEN getTodayCount(dailyUsage, clUser'[c]) < 15
               ELSE clArg'[c] <= 20 /\ getMonthCount(exams, clUser'[c]) < 3]_vars

\* u1 carries the premium flag with an expiry that has passed, has 15
\* submissions today and 3 completed exams this month, and was refused
C21_Witness ==
    /\ users["u1"].isPremium
    /\ users["u1"].premiumExpiry # NoExpiry /\ users["u1"].premiumExpiry <= now
    /\ getTodayCount(dailyUsage, "u1") = 15
    /\ \E c, d \in ClientIds :
        clResp[c] = "forbidden_daily" /\ clResp[d] \in {"forbidden_questions", "forbidden_monthly"}

\* the Philippine calendar day of an instant: UTC+8, 480 minutes, one tick
PH_TIMEZONE_OFFSET_TICKS == 1
getDateOnlyPHT(t) == (t + PH_TIMEZONE_OFFSET_TICKS) \div TicksPerDay

\* C22: daily usage counters are keyed by the Philippine (UTC+8) calendar day:
\* the counter row that a practice submission creates or increments is the row
\* of its user for the Philippine date of the instant of the submission, so
\* that submissions on one Philippine date share a row and submissions on
\* different Philippine dates do not.
C22_CountersKeyedByPhilippineDay ==
    [][\A k \in DOMAIN dailyUsage' :
        (k \notin DOMAIN dailyUsage \/ dailyUsage'[k] # dailyUsage[k])
            => k[2] = getDateOnlyPHT(now)]_vars

C24_CheckActionIncrement ==
    /\ [][\A c \in ClientIds :
            (clResp'[c] = "forbidden_daily" /\ clResp[c] # "forbidden_daily")
                => (/\ clPc[c] = "idle" /\ clPc'[c] = "idle"
                    /\ progress' = progress /\ dailyUsage' = dailyUsage)]_vars
    /\ [][\A c \in ClientIds :
            (clPc[c] = "action" /\ clPc'[c] = "idle")
                => (/\ clResp'[c] = "not_found"
                    /\ progress' = progress /\ dailyUsage' = dailyUsage)]_vars
    /\ [][dailyUsage' # dailyUsage =>
            \E c \in ClientIds :
                /\ clPc[c] = "increment" /\ clPc'[c] = "idle" /\ clResp'[c] = "answered"
                /\ progress' = progress
                /\ SumOf(dailyUsage') = SumOf(dailyUsage) + 1
                /\ getTodayCount(dailyUsage', clUser[c])
                      = getTodayCount(dailyUsage, clUser[c]) + 1]_vars

\* one submission was refused for the quota and one for its question, with the
\* day's counter at the limit
C24_Witness ==
    /\ \E c, d \in ClientIds : clResp[c] = "forbidden_daily" /\ clResp[d] = "not_found"
    /\ \E u \in Users : getTodayCount(dailyUsage, u) = FREE_TIER_PRACTICE_LIMIT_PER_DAY

\* C25: only completion consumes the monthly mock exam quota and sets a score:
\* a submitExam that completes a session raises the count of exams its user
\* completed this month by exactly 1 and leaves the session with a score and a
\* completion timestamp; an abandonExam that abandons a session leaves that count
\* unchanged and the score null; in every state a session has a score if and
\* only if it is COMPLETED.
C25_OnlyCompletionCounts ==
    /\ [](\A i \in 1..Len(exams) :
            (examData[i].score # NoScore) <=> (exams[i].status = "COMPLETED"))
    /\ [][\A c \in ClientIds :
            (clPc[c] = "complete" /\ clPc'[c] = "idle") =>
                /\ getMonthCount(exams', exams[clArg[c]].userId)
                      = getMonthCount(exams, exams[clArg[c]].userId) + 1
                /\ examData'[clArg[c]].score # NoScore
                /\ exams'[clArg[c]].completedAt # NoTime]_vars
    /\ [][\A c \in ClientIds :
            (clPc[c] = "abandon" /\ clPc'[c] = "idle") =>
                /\ getMonthCount(exams', exams[clArg[c]].userId)
                      = getMonthCount(exams, exams[clArg[c]].userId)
                /\ examData'[clArg[c]].score = NoScore]_vars

\* C26: submitExam and abandonExam calls in flight together on one IN_PROGRESS
\* session make exactly one terminal transition: a call that succeeds finds the
\* session still IN_PROGRESS when it writes, so at most one call per session
\* succeeds and the status it leaves is final; no session is ABANDONED with a
\* score, and no COMPLETED session becomes ABANDONED.
C26_OneTerminalTransition ==
    /\ [][\A c \in ClientIds :
            (clPc[c] \in {"complete", "abandon"} /\ clPc'[c] = "idle")
                => exams[clArg[c]].status = "IN_PROGRESS"]_vars
    /\ [](\A i \in 1..Len(exams) :
            exams[i].status = "ABANDONED" => examData[i].score = NoScore)
    /\ [][\A i \in 1..Len(exams) :
            exams[i].status = "COMPLETED" => exams'[i].status = "COMPLETED"]_vars

\* C27: saveAnswer touches only its own entry: the write of a successful
\* saveAnswer(session, q, o) leaves answers[q] = o and leaves every other entry
\* of the answer map in place with its value, so that two calls for different
\* questions of a session leave both answers in the map.
C27_AnswerTouchesOwnEntry ==
    [][\A c \in ClientIds :
        (clPc[c] = "saveAnswer" /\ clPc'[c] = "idle") =>
            LET old == examData[clArg[c]].answers
                new == examData'[clArg[c]].answers
                q == clData[c].questionId
            IN  /\ q \in DOMAIN new /\ new[q] = clData[c].selectedOptionId
                /\ \A k \in DOMAIN old \ {q} : k \in DOMAIN new /\ new[k] = old[k]]_vars

\* C28: a validly signed payment.paid (or link.payment.paid) event that carries
\* a userId ends with that user premium: once its handler is done, the user has
\* isPremium = true and an active subscription, also when the user had a
\* subscription row before the event.
C28_PaidEventEndsPremium ==
    \A h \in WebhookIds :
        (/\ whPc[h] = "done"
         /\ whEvent[h].sigValid /\ IsPaidType(whEvent[h].type)
         /\ whEvent[h].userId # NoUser)
        => (users[whEvent[h].userId].isPremium /\ ActiveSubOf(whEvent[h].userId))

\* C29: purchaseSubscription succeeds from every prior subscription state: when
\* a call has ended and no other purchase touched the same user, the call
\* answered with success, the user has exactly one subscription row, that row
\* is active, and isPremium = true.
C29_PurchaseFromEveryPriorState ==
    \A p \in PurchaserIds :
        (/\ puPc[p] = "done"
         /\ \A q \in PurchaserIds \ {p} : puPc[q] = "idle" \/ puUser[q] # puUser[p])
        => /\ puResp[p] = "ok"
           /\ Cardinality({s \in subs : s.userId = puUser[p]}) = 1
           /\ ActiveSubOf(puUser[p])
           /\ users[puUser[p]].isPremium

\* C30: duplicate deliveries of one payment.paid event are safe under every
\* interleaving: when two handlers have finished the same signed event (same
\* referenceNumber and userId) for a user with no row from another reference,
\* exactly one subscription row exists for the reference, the user is premium,
\* and both deliveries were answered with HTTP 200.
C30_DuplicateDeliveriesSafe ==
    \A h1, h2 \in WebhookIds :
        (/\ h1 # h2
         /\ whPc[h1] = "done" /\ whPc[h2] = "done"
         /\ whEvent[h1] = whEvent[h2]
         /\ whEvent[h1].sigValid /\ IsPaidType(whEvent[h1].type)
         /\ whEvent[h1].userId # NoUser
         /\ \A s \in subs : s.userId = whEvent[h1].userId
                            => s.referenceNumber = whEvent[h1].ref)
        => /\ Cardinality({s \in subs : s.referenceNumber = whEvent[h1].ref}) = 1
           /\ users[whEvent[h1].userId].isPremium
           /\ whResp[h1] = "200_received" /\ whResp[h2] = "200_received"

====
